---- MODULE Spec2Model ----
(***************************************************************************)
(* LumeVisual / lume-adaptrix: the cluster LOD build (NaniteBuilder) and   *)
(* the LAD asset file (AdaptrixAsset::save_to_file / load_from_file).      *)
(*                                                                         *)
(* Conventions.  Arrays are TLA+ sequences (1-based); the values stored in *)
(* them (vertex ids, cluster ids, offsets) are the program's 0-based       *)
(* numbers, so element i of a Rust slice a is a[i + 1] here.               *)
(* f32 error values are F32 records: Milli(n) is n * 0.001, Pow10(k) is    *)
(* the literal 1ek (1e10 and 1e9 do not fit a 32-bit integer of 0.001s).   *)
(* Positions are integers in units of 0.0001.                              *)
(***************************************************************************)
EXTENDS Integers, Sequences, FiniteSets, TLC

VARIABLES
    pc,                     \* position of process_mesh and NaniteBuilder::build
    positions,              \* process_mesh: positions (flat, 3 per vertex)
    vertices,               \* NaniteBuilder: vertices (positions only)
    indices,                \* the input index buffer (flat, 3 per triangle)
    clusters,               \* clusters_mutex: Vec<ClusterPacked>
    v_indices,              \* meshlet_vertex_indices_mutex: Vec<u32>
    p_indices,              \* meshlet_primitive_indices_mutex: Vec<u8>
    current_level_indices,  \* build: current_level_indices
    level,                  \* build: level
    workers,                \* the per-group closures of the level's for_each
    next_level_indices,     \* next_level_indices_mutex
    produced_from,          \* history: per cluster, the children of its group
    level_start,            \* history: the store when the level's fan-out began
    asset,                  \* the AdaptrixFlatAsset handed to save_to_file
    root_cluster_index,     \* the root_cluster_index handed to save_to_file
    file,                   \* the bytes of the file at the path
    handle,                 \* what load_from_file returned
    fpc,                    \* position of the save and load of a file
    part,                   \* a call of partition_clusters: arguments and result
    adjcall,                \* a call of build_adjacency: arguments and result
    simp,                   \* the simplification of one group: target, calls, result
    lk                      \* the mutexes of a level: owners and each thread's position

bvars == <<pc, positions, vertices, indices, clusters, v_indices, p_indices, current_level_indices,
           level, workers, next_level_indices, produced_from, level_start>>

fvars == <<asset, root_cluster_index, file, handle, fpc>>

pvars == <<part, adjcall, simp, lk>>

vars == <<pc, positions, vertices, indices, clusters, v_indices, p_indices, current_level_indices,
          level, workers, next_level_indices, produced_from, level_start,
          asset, root_cluster_index, file, handle, fpc, part, adjcall, simp, lk>>

-----------------------------------------------------------------------------
(* Bounds of the model *)

\* the input mesh is the first 1..MaxTris triangles of Soup
MaxTris == 3

-----------------------------------------------------------------------------
(* f32 values *)

Milli(n) == [big |-> FALSE, v |-> n]
Pow10(k) == [big |-> TRUE, v |-> k]

\* a < b.  A Milli value is below 2^31 * 0.001 < 1e7, so below any Pow10(k), k >= 7.
FLt(a, b) ==
    IF a.big = b.big THEN a.v < b.v ELSE b.big

FLe(a, b) == a = b \/ FLt(a, b)

\* f32::max
FMax(a, b) == IF FLt(a, b) THEN b ELSE a

\* a + b; adding a Milli value to 1ek (k >= 9) rounds back to 1ek in f32
FAdd(a, b) ==
    IF a.big THEN a
    ELSE IF b.big THEN b
    ELSE Milli(a.v + b.v)

\* the parent_error every cluster is pushed with (1e10)
InitialParentError == Pow10(10)

\* the threshold of the patch guard (1e9)
PatchGuard == Pow10(9)

-----------------------------------------------------------------------------
(* The input: vertices and the triangle soup *)

\* the vertices handed to NaniteBuilder::new, positions only (units of
\* 0.0001); vertex 4 quantizes to the weld key of vertex 1, vertex 9
\* (negative x) to that of vertex 0
Vertices == <<
    <<0, 0, 0>>,       <<20, 0, 0>>,      <<0, 20, 0>>,       <<20, 20, 0>>,
    <<24, 0, 0>>,      <<100, 100, 100>>, <<120, 100, 100>>,  <<100, 120, 100>>,
    <<120, 120, 100>>, <<-4, 0, 0>>,      <<140, 100, 100>> >>

NumVertices == Len(vertices)

\* index triples; triangles 1, 3, 5 form one connected component, 2, 4, 6 another
Soup == << <<0, 1, 2>>, <<5, 6, 7>>, <<2, 4, 3>>, <<7, 6, 8>>, <<3, 9, 1>>, <<8, 10, 6>> >>

RECURSIVE Flatten(_)
Flatten(tris) ==
    IF tris = <<>> THEN <<>> ELSE Head(tris) \o Flatten(Tail(tris))

InputMeshes == { Flatten(SubSeq(Soup, 1, n)) : n \in 1..MaxTris }

Position(v) == vertices[v + 1]

-----------------------------------------------------------------------------
(* Helpers on sequences *)

Range(s) == { s[i] : i \in DOMAIN s }

\* the elements of a set of numbers, ascending
RECURSIVE Ascending(_)
Ascending(S) ==
    IF S = {} THEN <<>>
    ELSE LET m == CHOOSE x \in S : \A y \in S : x <= y
         IN <<m>> \o Ascending(S \ {m})

\* 1-based position of the first occurrence of x in s, 0 if absent
IndexOf(s, x) ==
    IF \E i \in DOMAIN s : s[i] = x
    THEN CHOOSE i \in DOMAIN s : s[i] = x /\ \A j \in 1..(i - 1) : s[j] # x
    ELSE 0

RECURSIVE SumSeq(_)
SumSeq(s) == IF s = <<>> THEN 0 ELSE Head(s) + SumSeq(Tail(s))

\* floor of the square root
ISqrt(x) == CHOOSE r \in 0..x : r * r <= x /\ (r + 1) * (r + 1) > x

-----------------------------------------------------------------------------
(* meshopt::build_meshlets, by its contract: the triangles are cut, in     *)
(* order, into meshlets of at most 64 vertices and 124 triangles; each     *)
(* meshlet lists the vertices it uses in first-use order and its triangles *)
(* as bytes into that list.  Where it cuts is the library's choice.        *)

MaxMeshletVertices == 64
MaxMeshletTriangles == 124

\* the ways to cut n triangles into consecutive non-empty runs
RECURSIVE Compositions(_)
Compositions(n) ==
    IF n = 0 THEN { <<>> }
    ELSE UNION { { <<k>> \o c : c \in Compositions(n - k) } : k \in 1..n }

RECURSIVE MeshletVertices(_, _)
MeshletVertices(idx, acc) ==
    IF idx = <<>> THEN acc
    ELSE MeshletVertices(Tail(idx),
                         IF IndexOf(acc, Head(idx)) = 0 THEN Append(acc, Head(idx)) ELSE acc)

\* one meshlet from a run of indices
Meshlet(idx) ==
    LET vs == MeshletVertices(idx, <<>>)
    IN [vertices |-> vs,
        indices  |-> [i \in 1..Len(idx) |-> IndexOf(vs, idx[i]) - 1]]

RECURSIVE CutMeshlets(_, _)
CutMeshlets(idx, sizes) ==
    IF sizes = <<>> THEN <<>>
    ELSE <<Meshlet(SubSeq(idx, 1, 3 * Head(sizes)))>>
         \o CutMeshlets(SubSeq(idx, 3 * Head(sizes) + 1, Len(idx)), Tail(sizes))

\* every result build_meshlets may return for idx
BuildMeshlets(idx) ==
    { ms \in { CutMeshlets(idx, sizes) : sizes \in Compositions(Len(idx) \div 3) } :
        \A i \in DOMAIN ms :
            /\ Len(ms[i].vertices) <= MaxMeshletVertices
            /\ Len(ms[i].indices) \div 3 <= MaxMeshletTriangles }

-----------------------------------------------------------------------------
(* The cluster store: push_cluster_thread_safe.  The three mutexes are     *)
(* taken on entry and held to the return, so a push is one step.           *)

\* counts: vertex count in the low 8 bits, triangle count in the next 8
PackCounts(nv, nt) == (nv % 256) + 256 * (nt % 256)
VertexCount(c) == c.counts % 256
TriangleCount(c) == (c.counts \div 256) % 256

\* mutant: the padding bytes are 255
PadTo4With255(p) == p \o [i \in 1..((4 - (Len(p) % 4)) % 4) |-> 255]

\* mutant: nothing is padded
PadTo4Nothing(p) == p

\* p_indices after `while p_indices.len() % 4 != 0 { p_indices.push(0) }`
PadTo4(p) == p \o [i \in 1..((4 - (Len(p) % 4)) % 4) |-> 0]

\* centroid of the listed vertices, then the largest distance from it
CenterRadius(local_verts) ==
    LET n == Len(local_verts)
        sum(k) == SumSeq([i \in 1..n |-> Position(local_verts[i])[k]])
        center == IF n = 0 THEN <<0, 0, 0>>
                  ELSE <<sum(1) \div n, sum(2) \div n, sum(3) \div n>>
        d2(v) == LET p == Position(v)
                 IN (p[1] - center[1]) * (p[1] - center[1])
                    + (p[2] - center[2]) * (p[2] - center[2])
                    + (p[3] - center[3]) * (p[3] - center[3])
        dists == { ISqrt(d2(local_verts[i])) : i \in 1..n } \cup {0}
        radius == CHOOSE r \in dists : \A q \in dists : q <= r
    IN <<center[1], center[2], center[3], radius>>

\* mutant: the vertex ids are put in front of the array
ExtendVertexIndicesInFront(v, local_verts) == local_verts \o v

\* mutant: the slots are appended, not the vertex ids
ExtendVertexIndicesSlots(v, local_verts) ==
    v \o [i \in 1..Len(local_verts) |-> Len(v) + i - 1]

\* v_indices.extend_from_slice(local_verts)
ExtendVertexIndices(v, local_verts) == v \o local_verts

\* mutant: the offsets are read after the arrays were extended
PushClusterOffsetsAfter(store, local_verts, local_tris, lod_error, parent_error) ==
    LET v_after == ExtendVertexIndices(store.v, local_verts)
        p_after == PadTo4(store.p \o local_tris)
        cluster == [center_radius   |-> CenterRadius(local_verts),
                    vertex_offset   |-> Len(v_after),
                    triangle_offset |-> Len(p_after),
                    counts          |-> PackCounts(Len(local_verts), Len(local_tris) \div 3),
                    lod_error       |-> lod_error,
                    parent_error    |-> parent_error]
    IN [clusters |-> Append(store.clusters, cluster), v |-> v_after, p |-> p_after]

\* the store after push_cluster_thread_safe; the new cluster's index is
\* Len(store.clusters) before the push
PushCluster(store, local_verts, local_tris, lod_error, parent_error) ==
    LET v_offset == Len(store.v)
        t_offset == Len(store.p)
        cluster == [center_radius   |-> CenterRadius(local_verts),
                    vertex_offset   |-> v_offset,
                    triangle_offset |-> t_offset,
                    counts          |-> PackCounts(Len(local_verts), Len(local_tris) \div 3),
                    lod_error       |-> lod_error,
                    parent_error    |-> parent_error]
    IN [clusters |-> Append(store.clusters, cluster),
        v        |-> ExtendVertexIndices(store.v, local_verts),
        p        |-> PadTo4(store.p \o local_tris)]

Store == [clusters |-> clusters, v |-> v_indices, p |-> p_indices]

EmptyStore == [clusters |-> <<>>, v |-> <<>>, p |-> <<>>]

-----------------------------------------------------------------------------
(* partitioner.rs: build_adjacency.  The adjacency is the CSR pair         *)
(* (offsets, neighbors) over all num_clusters cluster ids.                 *)

\* step 1: the (vertex id, cluster id) pairs, cluster by cluster
RECURSIVE AdjEntries(_, _, _)
AdjEntries(cluster_indices, mvi, cluster_vertex_offsets) ==
    IF cluster_indices = <<>> THEN <<>>
    ELSE LET global_idx == Head(cluster_indices)
             offset == cluster_vertex_offsets[global_idx + 1][1]
             count  == cluster_vertex_offsets[global_idx + 1][2]
         IN [i \in 1..count |-> <<mvi[offset + i], global_idx>>]
            \o AdjEntries(Tail(cluster_indices), mvi, cluster_vertex_offsets)

\* step 2: sort_unstable_by_key on the vertex id.  Slices of at most 20
\* elements are insertion-sorted, which keeps equal keys in their order.
RECURSIVE SortByVertex(_, _)
SortByVertex(entries, keys) ==
    IF keys = {} THEN <<>>
    ELSE LET k == CHOOSE x \in keys : \A y \in keys : x <= y
         IN SelectSeq(entries, LAMBDA e : e[1] = k) \o SortByVertex(entries, keys \ {k})

\* mutant: only the first two entries of a run are joined
RawAdjFirstPairOfRun(sorted) ==
    { <<IF sorted[k][2] < sorted[k + 1][2] THEN sorted[k][2] ELSE sorted[k + 1][2],
        IF sorted[k][2] < sorted[k + 1][2] THEN sorted[k + 1][2] ELSE sorted[k][2]>> :
        k \in { j \in 1..(Len(sorted) - 1) :
                  /\ sorted[j][1] = sorted[j + 1][1] /\ sorted[j][2] # sorted[j + 1][2]
                  /\ (j = 1 \/ sorted[j - 1][1] # sorted[j][1]) } }

\* step 3: within a run of one vertex id, an edge between consecutive
\* entries of different clusters, as (min, max)
RawAdj(sorted) ==
    { <<IF sorted[k][2] < sorted[k + 1][2] THEN sorted[k][2] ELSE sorted[k + 1][2],
        IF sorted[k][2] < sorted[k + 1][2] THEN sorted[k + 1][2] ELSE sorted[k][2]>> :
        k \in { j \in 1..(Len(sorted) - 1) :
                  sorted[j][1] = sorted[j + 1][1] /\ sorted[j][2] # sorted[j + 1][2] } }

PairLess(a, b) == a[1] < b[1] \/ (a[1] = b[1] /\ a[2] < b[2])

\* step 4: raw_adj.sort_unstable(); raw_adj.dedup()
RECURSIVE SortPairs(_)
SortPairs(S) ==
    IF S = {} THEN <<>>
    ELSE LET m == CHOOSE x \in S : \A y \in S \ {x} : PairLess(x, y)
         IN <<m>> \o SortPairs(S \ {m})

\* step 5a: offsets[c + 1] += 1 for both ends of every edge
RECURSIVE CountDegrees(_, _)
CountDegrees(raw_adj, offsets) ==
    IF raw_adj = <<>> THEN offsets
    ELSE LET c1 == Head(raw_adj)[1]
             c2 == Head(raw_adj)[2]
             o1 == [offsets EXCEPT ![c1 + 2] = @ + 1]
         IN CountDegrees(Tail(raw_adj), [o1 EXCEPT ![c2 + 2] = @ + 1])

\* step 5b: for i in 0..num_clusters { offsets[i + 1] += offsets[i] }
RECURSIVE PrefixSum(_, _, _)
PrefixSum(offsets, i, num_clusters) ==
    IF i >= num_clusters THEN offsets
    ELSE PrefixSum([offsets EXCEPT ![i + 2] = @ + offsets[i + 1]], i + 1, num_clusters)

\* mutant: an edge is entered at its lower end only
RECURSIVE FillNeighborsOneWay(_, _, _)
FillNeighborsOneWay(raw_adj, current_offsets, neighbors) ==
    IF raw_adj = <<>> THEN neighbors
    ELSE LET c1 == Head(raw_adj)[1]
             c2 == Head(raw_adj)[2]
             n1 == [neighbors EXCEPT ![current_offsets[c1 + 1] + 1] = c2]
             o1 == [current_offsets EXCEPT ![c1 + 1] = @ + 1]
         IN FillNeighborsOneWay(Tail(raw_adj), o1, n1)

\* step 5c: fill neighbors through the running cursors current_offsets
RECURSIVE FillNeighbors(_, _, _)
FillNeighbors(raw_adj, current_offsets, neighbors) ==
    IF raw_adj = <<>> THEN neighbors
    ELSE LET c1 == Head(raw_adj)[1]
             c2 == Head(raw_adj)[2]
             n1 == [neighbors EXCEPT ![current_offsets[c1 + 1] + 1] = c2]
             o1 == [current_offsets EXCEPT ![c1 + 1] = @ + 1]
             n2 == [n1 EXCEPT ![o1[c2 + 1] + 1] = c1]
             o2 == [o1 EXCEPT ![c2 + 1] = @ + 1]
         IN FillNeighbors(Tail(raw_adj), o2, n2)

\* vec![0u32; n]
RECURSIVE Zeros(_)
Zeros(n) == IF n = 0 THEN <<>> ELSE Append(Zeros(n - 1), 0)

\* step 5: the CSR form of the sorted edge list
Csr(num_clusters, raw_adj) ==
    LET offsets == PrefixSum(CountDegrees(raw_adj, Zeros(num_clusters + 1)),
                             0, num_clusters)
    IN [offsets   |-> offsets,
        neighbors |-> FillNeighbors(raw_adj, offsets, Zeros(2 * Len(raw_adj)))]

build_adjacency(num_clusters, cluster_indices, mvi, cluster_vertex_offsets) ==
    LET entries == AdjEntries(cluster_indices, mvi, cluster_vertex_offsets)
        sorted  == SortByVertex(entries, { entries[i][1] : i \in DOMAIN entries })
    IN Csr(num_clusters, SortPairs(RawAdj(sorted)))

\* Adjacency::get_neighbors
get_neighbors(adj, cluster_idx) ==
    SubSeq(adj.neighbors, adj.offsets[cluster_idx + 1] + 1, adj.offsets[cluster_idx + 2])

-----------------------------------------------------------------------------
(* partitioner.rs: partition_clusters.  The bitsets visited and            *)
(* in_current_level are sets of cluster ids.                               *)

\* mutant: the neighbours of any level are accepted
RECURSIVE EnqueueNeighborsAnyLevel(_, _, _, _)
EnqueueNeighborsAnyLevel(nbrs, queue, visited, in_current_level) ==
    IF nbrs = <<>> THEN [queue |-> queue, visited |-> visited]
    ELSE IF Head(nbrs) \notin visited
         THEN EnqueueNeighborsAnyLevel(Tail(nbrs), Append(queue, Head(nbrs)),
                                       visited \cup {Head(nbrs)}, in_current_level)
         ELSE EnqueueNeighborsAnyLevel(Tail(nbrs), queue, visited, in_current_level)

\* the `for &neighbor in adj.get_neighbors(idx)` loop
RECURSIVE EnqueueNeighbors(_, _, _, _)
EnqueueNeighbors(nbrs, queue, visited, in_current_level) ==
    IF nbrs = <<>> THEN [queue |-> queue, visited |-> visited]
    ELSE IF Head(nbrs) \notin visited /\ Head(nbrs) \in in_current_level
         THEN EnqueueNeighbors(Tail(nbrs), Append(queue, Head(nbrs)),
                               visited \cup {Head(nbrs)}, in_current_level)
         ELSE EnqueueNeighbors(Tail(nbrs), queue, visited, in_current_level)

\* mutant: the size test is > where the code has >=
RECURSIVE BfsGroupOverfull(_, _, _, _, _, _)
BfsGroupOverfull(queue, current_group, visited, adj, in_current_level, target_group_size) ==
    IF queue = <<>> THEN [group |-> current_group, visited |-> visited]
    ELSE LET idx == Head(queue)
             g   == Append(current_group, idx)
         IN IF Len(g) > target_group_size
            THEN [group |-> g, visited |-> visited]
            ELSE LET e == EnqueueNeighbors(get_neighbors(adj, idx), Tail(queue),
                                           visited, in_current_level)
                 IN BfsGroupOverfull(e.queue, g, e.visited, adj, in_current_level,
                                     target_group_size)

\* the `while let Some(idx) = queue.pop_front()` loop; breaking at the target
\* size leaves the queue's remainder behind, marked visited
RECURSIVE BfsGroup(_, _, _, _, _, _)
BfsGroup(queue, current_group, visited, adj, in_current_level, target_group_size) ==
    IF queue = <<>> THEN [group |-> current_group, visited |-> visited]
    ELSE LET idx == Head(queue)
             g   == Append(current_group, idx)
         IN IF Len(g) >= target_group_size
            THEN [group |-> g, visited |-> visited]
            ELSE LET e == EnqueueNeighbors(get_neighbors(adj, idx), Tail(queue),
                                           visited, in_current_level)
                 IN BfsGroup(e.queue, g, e.visited, adj, in_current_level, target_group_size)

\* the `for &start_idx in cluster_indices` loop
RECURSIVE PartitionFrom(_, _, _, _, _, _)
PartitionFrom(rest, visited, groups, adj, in_current_level, target_group_size) ==
    IF rest = <<>> THEN groups
    ELSE IF Head(rest) \in visited
         THEN PartitionFrom(Tail(rest), visited, groups, adj, in_current_level,
                            target_group_size)
         ELSE LET b == BfsGroup(<<Head(rest)>>, <<>>, visited \cup {Head(rest)}, adj,
                                in_current_level, target_group_size)
              IN PartitionFrom(Tail(rest), b.visited,
                               IF b.group # <<>> THEN Append(groups, b.group) ELSE groups,
                               adj, in_current_level, target_group_size)

partition_clusters(cluster_indices, adj, target_group_size) ==
    PartitionFrom(cluster_indices, {}, <<>>, adj, Range(cluster_indices), target_group_size)

-----------------------------------------------------------------------------
(* build_next_level, the per-group closure: weld                           *)

\* `x as i32` of x = position * 1000.0: truncation toward zero
TruncDiv(n, d) == IF n >= 0 THEN n \div d ELSE -((-n) \div d)

\* weld_key of a vertex (positions are in units of 0.0001)
WeldKey(v) ==
    <<TruncDiv(Position(v)[1], 10), TruncDiv(Position(v)[2], 10), TruncDiv(Position(v)[3], 10)>>

\* global_v_idx of corner i (0-based) of a cluster
GlobalVertexOf(store, cluster, i) ==
    LET local_v_idx == store.p[cluster.triangle_offset + i + 1]
    IN store.v[cluster.vertex_offset + local_v_idx + 1]

\* the global vertex of every triangle corner of the group's clusters, in
\* the order the two nested loops visit them
RECURSIVE GroupCorners(_, _)
GroupCorners(store, cluster_indices) ==
    IF cluster_indices = <<>> THEN <<>>
    ELSE LET cluster == store.clusters[Head(cluster_indices) + 1]
         IN [i \in 1..(3 * TriangleCount(cluster)) |-> GlobalVertexOf(store, cluster, i - 1)]
            \o GroupCorners(store, Tail(cluster_indices))

\* mutant: every corner is entered as a new group vertex
RECURSIVE WeldFoldNoReuse(_, _)
WeldFoldNoReuse(corners, acc) ==
    IF corners = <<>> THEN acc
    ELSE LET global_v_idx == Head(corners)
             weld_key == WeldKey(global_v_idx)
         IN WeldFoldNoReuse(Tail(corners),
                            [keys                |-> Append(acc.keys, weld_key),
                             group_to_global_map |-> Append(acc.group_to_global_map, global_v_idx),
                             group_indices       |-> Append(acc.group_indices, Len(acc.keys))])

\* vertex_map.entry(weld_key).or_insert_with(..): keys holds the map's keys
\* in insertion order, so a key's group-local index is its position
RECURSIVE WeldFold(_, _)
WeldFold(corners, acc) ==
    IF corners = <<>> THEN acc
    ELSE LET global_v_idx == Head(corners)
             weld_key == WeldKey(global_v_idx)
             found == IndexOf(acc.keys, weld_key)
         IN IF found # 0
            THEN WeldFold(Tail(corners),
                          [acc EXCEPT !.group_indices = Append(@, found - 1)])
            ELSE WeldFold(Tail(corners),
                          [keys                |-> Append(acc.keys, weld_key),
                           group_to_global_map |-> Append(acc.group_to_global_map, global_v_idx),
                           group_indices       |-> Append(acc.group_indices, Len(acc.keys))])

Weld(store, cluster_indices) ==
    WeldFold(GroupCorners(store, cluster_indices),
             [keys |-> <<>>, group_to_global_map |-> <<>>, group_indices |-> <<>>])

\* max_child_error
RECURSIVE MaxChildError(_, _, _)
MaxChildError(store, cluster_indices, acc) ==
    IF cluster_indices = <<>> THEN acc
    ELSE MaxChildError(store, Tail(cluster_indices),
                       FMax(acc, store.clusters[Head(cluster_indices) + 1].lod_error))

-----------------------------------------------------------------------------
(* build_next_level, the per-group closure: target, simplify, error        *)

RECURSIVE Pow2(_)
Pow2(n) == IF n = 0 THEN 1 ELSE 2 * Pow2(n - 1)

\* error_threshold = 0.01 * 2^level, in units of 0.001
ErrorThreshold(lvl) == 10 * Pow2(lvl)

\* target_tris = max(1, (tris as f32 * reduction_ratio) as usize)
TargetTris(num_indices, lvl) ==
    LET tris == num_indices \div 3
        t == IF lvl < 3 THEN tris \div 2 ELSE tris \div 4
    IN IF t > 1 THEN t ELSE 1

\* meshopt::simplify / simplify_sloppy, by contract: an index list over the
\* same vertices, never longer than the input.  The results modelled are
\* the input's first k triangles, for every k.
SimplifierResults(group_indices) ==
    { SubSeq(group_indices, 1, 3 * k) : k \in 0..(Len(group_indices) \div 3) }

\* mutant: the threshold is three quarters of the input
SloppyThresholdThreeQuarters(num_indices) == (3 * num_indices) \div 4

\* (indices.len() as f32 * 0.8) as usize
SloppyThreshold(num_indices) == (4 * num_indices) \div 5

\* the error estimate of simplify_group, in units of 0.001 (rounded down)
SimplifyError(num_indices, num_simplified, error_threshold) ==
    IF num_indices > 0
    THEN LET lost == IF num_indices > num_simplified THEN num_indices - num_simplified ELSE 0
         IN (lost * error_threshold) \div num_indices
            + (IF 5 * num_simplified > 4 * num_indices THEN 100 ELSE 0)
    ELSE 0

\* every SimplifiedMesh simplify_group may return
simplify_group(group_indices, target_count, error_threshold) ==
    LET finals == UNION { IF Len(first) > SloppyThreshold(Len(group_indices))
                          THEN SimplifierResults(group_indices)
                          ELSE { first } :
                          first \in SimplifierResults(group_indices) }
    IN { [indices |-> f,
          error   |-> SimplifyError(Len(group_indices), Len(f), error_threshold)] :
         f \in finals }

\* mutant: the children's error is not accumulated
CurrentLodErrorNotAccumulated(max_child_error, simplified_error) ==
    FAdd(Milli(simplified_error), Milli(1))

\* current_lod_error = max_child_error + simplified.error + 0.001
CurrentLodError(max_child_error, simplified_error) ==
    FAdd(FAdd(max_child_error, Milli(simplified_error)), Milli(1))

\* parent_v_indices of a meshlet of the simplified group
ParentVertexIndices(m_vertices, group_to_global_map) ==
    [i \in 1..Len(m_vertices) |-> group_to_global_map[m_vertices[i] + 1]]

\* mutant: each child is patched with its own error plus the bump
PatchChildrenOwnError(cl, children, current_lod_error) ==
    [i \in 1..Len(cl) |->
        IF (i - 1) \in Range(children) /\ FLe(PatchGuard, cl[i].parent_error)
        THEN [cl[i] EXCEPT !.parent_error = FAdd(cl[i].lod_error, Milli(1))]
        ELSE cl[i]]

\* mutant: only the group's first child is patched
PatchChildrenFirstOnly(cl, children, current_lod_error) ==
    [i \in 1..Len(cl) |->
        IF children # <<>> /\ (i - 1) = children[1] /\ FLe(PatchGuard, cl[i].parent_error)
        THEN [cl[i] EXCEPT !.parent_error = current_lod_error]
        ELSE cl[i]]

\* mutant: the loop runs over every cluster of the store
PatchChildrenAll(cl, children, current_lod_error) ==
    [i \in 1..Len(cl) |->
        IF FLe(PatchGuard, cl[i].parent_error)
        THEN [cl[i] EXCEPT !.parent_error = current_lod_error]
        ELSE cl[i]]

\* the loop that patches the group's children under the clusters lock
PatchChildren(cl, children, current_lod_error) ==
    [i \in 1..Len(cl) |->
        IF (i - 1) \in Range(children) /\ FLe(PatchGuard, cl[i].parent_error)
        THEN [cl[i] EXCEPT !.parent_error = current_lod_error]
        ELSE cl[i]]

-----------------------------------------------------------------------------
(* NaniteBuilder::build *)

\* every index of the index buffer names a vertex of self.vertices
IndicesInRange == \A k \in DOMAIN indices : indices[k] < Len(vertices)

\* generate_level0: push every meshlet, in order, with lod_error 0.0
RECURSIVE PushAll(_, _, _, _)
PushAll(store, meshlets, lod_error, parent_error) ==
    IF meshlets = <<>> THEN store
    ELSE PushAll(PushCluster(store, Head(meshlets).vertices, Head(meshlets).indices,
                             lod_error, parent_error),
                 Tail(meshlets), lod_error, parent_error)

GenerateLevel0 ==
    /\ pc = "level0"
    /\ IndicesInRange
    /\ \E meshlets \in BuildMeshlets(indices) :
          LET s == PushAll(Store, meshlets, Milli(0), InitialParentError)
          IN /\ clusters' = s.clusters
             /\ v_indices' = s.v
             /\ p_indices' = s.p
             /\ current_level_indices' = [i \in 1..Len(meshlets) |-> i - 1]
             /\ produced_from' = [i \in 1..Len(meshlets) |-> <<>>]
    /\ pc' = "loop"
    /\ UNCHANGED <<positions, vertices, indices, level, workers, next_level_indices, level_start>>
    /\ UNCHANGED <<fvars, pvars>>

\* the pushes of generate_level0 up to the first meshlet that lists a vertex
\* that is not there: push_cluster_thread_safe has extended the two arrays
\* when self.vertices[v_idx] panics, and no cluster record is pushed
RECURSIVE PushUntilPanic(_, _)
PushUntilPanic(store, meshlets) ==
    IF meshlets = <<>> THEN store
    ELSE IF \A v \in Range(Head(meshlets).vertices) : v < Len(vertices)
    THEN PushUntilPanic(PushCluster(store, Head(meshlets).vertices, Head(meshlets).indices,
                                    Milli(0), InitialParentError),
                        Tail(meshlets))
    ELSE [clusters |-> store.clusters,
          v        |-> ExtendVertexIndices(store.v, Head(meshlets).vertices),
          p        |-> PadTo4(store.p \o Head(meshlets).indices)]

\* generate_level0 on an index buffer that names a vertex that is not there.
\* Nothing checks the indices.  meshopt's build_meshlets indexes a table of
\* vertices.len() entries with every index; it checks them only where its
\* assertions are compiled in.  So either the call aborts the process, or it
\* returns meshlets that list the index, and the push of the first of those
\* panics at self.vertices[v_idx]
GenerateLevel0OutOfRange ==
    /\ pc = "level0"
    /\ ~IndicesInRange
    /\ \/ /\ pc' = "aborted"
          /\ UNCHANGED <<clusters, v_indices, p_indices, produced_from>>
       \/ /\ pc' = "panicked"
          /\ \E meshlets \in BuildMeshlets(indices) :
                LET s == PushUntilPanic(Store, meshlets)
                IN /\ clusters' = s.clusters
                   /\ v_indices' = s.v
                   /\ p_indices' = s.p
                   /\ produced_from' = [i \in 1..Len(s.clusters) |-> <<>>]
    /\ UNCHANGED <<positions, vertices, indices, current_level_indices, level, workers,
                   next_level_indices, level_start>>
    /\ UNCHANGED <<fvars, pvars>>

\* the vertices process_mesh makes of the positions, one per triple
RECURSIVE VerticesOf(_)
VerticesOf(ps) ==
    IF Len(ps) < 3 THEN <<>>
    ELSE << <<ps[1], ps[2], ps[3]>> >> \o VerticesOf(SubSeq(ps, 4, Len(ps)))

\* process_mesh up to the call of build: NaniteBuilder::new(vertices)
ProcessMesh ==
    /\ pc = "process_mesh"
    /\ vertices' = VerticesOf(positions)
    /\ pc' = "level0"
    /\ UNCHANGED <<positions, indices, clusters, v_indices, p_indices, current_level_indices,
                   level, workers, next_level_indices, produced_from, level_start>>
    /\ UNCHANGED <<fvars, pvars>>

\* group_size = if level < 2 { 8 } else { 12 }
GroupSizeFine == 8
GroupSizeCoarse == 12
GroupSize(lvl) == IF lvl < 2 THEN GroupSizeFine ELSE GroupSizeCoarse

\* the groups build_next_level computes before the fan-out
LevelGroups(store, current_indices, lvl) ==
    LET offsets == [i \in 1..Len(store.clusters) |->
                       <<store.clusters[i].vertex_offset, VertexCount(store.clusters[i])>>]
        adj == build_adjacency(Len(store.clusters), current_indices, store.v, offsets)
    IN partition_clusters(current_indices, adj, GroupSize(lvl))

\* `while current_level_indices.len() > 1`, then build_next_level up to the
\* start of groups.into_par_iter().for_each
BuildNextLevelStart ==
    /\ pc = "loop"
    /\ Len(current_level_indices) > 1
    /\ LET groups == LevelGroups(Store, current_level_indices, level)
       IN workers' = [g \in 1..Len(groups) |->
                        [pc                |-> "start",
                         cluster_indices   |-> groups[g],
                         meshlets          |-> <<>>,
                         current_lod_error |-> Milli(0),
                         pushed            |-> 0,
                         local_next_indices |-> <<>>]]
    /\ next_level_indices' = <<>>
    /\ level_start' = Store
    /\ pc' = "fanout"
    /\ UNCHANGED <<positions, vertices, indices, clusters, v_indices, p_indices, current_level_indices,
                   level, produced_from>>
    /\ UNCHANGED <<fvars, pvars>>

\* the loop test fails: build returns the asset
LoopExit ==
    /\ pc = "loop"
    /\ Len(current_level_indices) <= 1
    /\ pc' = "done"
    /\ UNCHANGED <<positions, vertices, indices, clusters, v_indices, p_indices, current_level_indices,
                   level, workers, next_level_indices, produced_from, level_start>>
    /\ UNCHANGED <<fvars, pvars>>

\* a group's closure from its start to the first push: the locked read
\* (weld, max_child_error), the simplification and the re-clustering
WorkerRun(g) ==
    /\ pc = "fanout"
    /\ workers[g].pc = "start"
    /\ LET w == workers[g]
           weld == Weld(Store, w.cluster_indices)
           max_child_error == MaxChildError(Store, w.cluster_indices, Milli(0))
           target_tris == TargetTris(Len(weld.group_indices), level)
       IN \E simplified \in simplify_group(weld.group_indices, target_tris,
                                           ErrorThreshold(level)) :
          \E next_meshlets \in BuildMeshlets(simplified.indices) :
             workers' = [workers EXCEPT ![g] =
                [w EXCEPT
                   !.pc = IF next_meshlets = <<>> THEN "finish" ELSE "push",
                   !.meshlets = [i \in 1..Len(next_meshlets) |->
                                   [vertices |-> ParentVertexIndices(next_meshlets[i].vertices,
                                                                     weld.group_to_global_map),
                                    indices  |-> next_meshlets[i].indices]],
                   !.current_lod_error = CurrentLodError(max_child_error, simplified.error)]]
    /\ UNCHANGED <<pc, positions, vertices, indices, clusters, v_indices, p_indices, current_level_indices,
                   level, next_level_indices, produced_from, level_start>>
    /\ UNCHANGED <<fvars, pvars>>

\* push_cluster_thread_safe of the group's next meshlet
WorkerPush(g) ==
    /\ pc = "fanout"
    /\ workers[g].pc = "push"
    /\ LET w == workers[g]
           m == w.meshlets[w.pushed + 1]
           s == PushCluster(Store, m.vertices, m.indices, w.current_lod_error,
                            InitialParentError)
       IN /\ clusters' = s.clusters
          /\ v_indices' = s.v
          /\ p_indices' = s.p
          /\ produced_from' = Append(produced_from, w.cluster_indices)
          /\ workers' = [workers EXCEPT ![g] =
                [w EXCEPT !.pc = "patch",
                          !.pushed = @ + 1,
                          !.local_next_indices = Append(@, Len(clusters))]]
    /\ UNCHANGED <<pc, positions, vertices, indices, current_level_indices, level, next_level_indices,
                   level_start>>
    /\ UNCHANGED <<fvars, pvars>>

\* the patch of the group's children that follows each push
WorkerPatch(g) ==
    /\ pc = "fanout"
    /\ workers[g].pc = "patch"
    /\ LET w == workers[g]
       IN /\ clusters' = PatchChildren(clusters, w.cluster_indices, w.current_lod_error)
          /\ workers' = [workers EXCEPT ![g] =
                [w EXCEPT !.pc = IF w.pushed < Len(w.meshlets) THEN "push" ELSE "finish"]]
    /\ UNCHANGED <<pc, positions, vertices, indices, v_indices, p_indices, current_level_indices, level,
                   next_level_indices, produced_from, level_start>>
    /\ UNCHANGED <<fvars, pvars>>

\* next_level_indices_mutex.lock().unwrap().extend(local_next_indices)
WorkerFinish(g) ==
    /\ pc = "fanout"
    /\ workers[g].pc = "finish"
    /\ next_level_indices' = next_level_indices \o workers[g].local_next_indices
    /\ workers' = [workers EXCEPT ![g] = [@ EXCEPT !.pc = "finished"]]
    /\ UNCHANGED <<pc, positions, vertices, indices, clusters, v_indices, p_indices, current_level_indices,
                   level, produced_from, level_start>>
    /\ UNCHANGED <<fvars, pvars>>

AllFinished == \A g \in DOMAIN workers : workers[g].pc = "finished"

\* mutant: for_each returns while closures are still running
LevelJoinEarly ==
    /\ pc = "fanout"
    /\ IF Len(next_level_indices) >= Len(current_level_indices)
       THEN /\ pc' = "done"
            /\ UNCHANGED <<current_level_indices, level>>
       ELSE /\ pc' = "loop"
            /\ current_level_indices' = next_level_indices
            /\ level' = level + 1
    /\ UNCHANGED <<positions, vertices, indices, clusters, v_indices, p_indices, workers, next_level_indices,
                   produced_from, level_start>>
    /\ UNCHANGED <<fvars, pvars>>

\* mutant: the stall test is > where the code has >=
LevelJoinStallOnlyWhenGrowing ==
    /\ pc = "fanout"
    /\ AllFinished
    /\ IF Len(next_level_indices) > Len(current_level_indices)
       THEN /\ pc' = "done"
            /\ UNCHANGED <<current_level_indices, level>>
       ELSE /\ pc' = "loop"
            /\ current_level_indices' = next_level_indices
            /\ level' = level + 1
    /\ UNCHANGED <<positions, vertices, indices, clusters, v_indices, p_indices, workers, next_level_indices,
                   produced_from, level_start>>
    /\ UNCHANGED <<fvars, pvars>>

\* for_each has returned and so has build_next_level: the stall test of build
LevelJoin ==
    /\ pc = "fanout"
    /\ AllFinished
    /\ IF Len(next_level_indices) >= Len(current_level_indices)
       THEN /\ pc' = "done"
            /\ UNCHANGED <<current_level_indices, level>>
       ELSE /\ pc' = "loop"
            /\ current_level_indices' = next_level_indices
            /\ level' = level + 1
    /\ UNCHANGED <<positions, vertices, indices, clusters, v_indices, p_indices, workers, next_level_indices,
                   produced_from, level_start>>
    /\ UNCHANGED <<fvars, pvars>>

-----------------------------------------------------------------------------
(* Properties of the build *)

\* the vertex-index slice of cluster i (1-based position in clusters)
VertexSlice(i) ==
    SubSeq(v_indices, clusters[i].vertex_offset + 1,
           clusters[i].vertex_offset + VertexCount(clusters[i]))

\* positions in clusters of the clusters produced from a group
Parents == { j \in DOMAIN clusters : produced_from[j] # <<>> }

\* positions in clusters of the children of the group that produced j
ChildrenOf(j) == { c + 1 : c \in Range(produced_from[j]) }

\* C1: after build, every cluster has lod_error < parent_error, strictly,
\* whether parent_error was patched or is still the initial 1e10
C1_MonotoneError ==
    pc = "done" =>
        \A i \in DOMAIN clusters : FLt(clusters[i].lod_error, clusters[i].parent_error)

\* two groups ran side by side, and a cluster of a coarser level was patched
C1_Witness ==
    /\ pc = "done"
    /\ \E i \in DOMAIN clusters :
          /\ ~clusters[i].parent_error.big
          /\ FLt(Milli(0), clusters[i].lod_error)
    /\ \E i \in DOMAIN clusters : clusters[i].parent_error = InitialParentError

\* C2: after build, every child of a group has parent_error equal to the
\* lod_error of every cluster produced from that group
C2_SharedGroupError ==
    pc = "done" =>
        \A j \in Parents : \A c \in ChildrenOf(j) :
            clusters[c].parent_error = clusters[j].lod_error

\* a group of two children that produced two parents
C2_Witness ==
    /\ pc = "done"
    /\ \E j, k \in Parents :
          /\ j # k
          /\ produced_from[j] = produced_from[k]
          /\ Len(produced_from[j]) >= 2

\* C3 as claimed: when build ends, the clusters still at the initial
\* parent_error are exactly those of the final current_level_indices
C3_TopLevelUnpatched ==
    pc = "done" =>
        \A i \in DOMAIN clusters :
            (clusters[i].parent_error = InitialParentError)
                <=> ((i - 1) \in Range(current_level_indices))

\* the cut: cluster i is selected at threshold t
Selected(i, t) == FLe(clusters[i].lod_error, t) /\ FLt(t, clusters[i].parent_error)

\* two intervals [lod, parent) meet iff they meet at one of their lower
\* ends, so the lod_error values of the store are all the thresholds needed;
\* the parent_error values are added for good measure
Thresholds ==
    { clusters[i].lod_error : i \in DOMAIN clusters }
        \cup { clusters[i].parent_error : i \in DOMAIN clusters }

\* C4: after build, no threshold selects a child and a parent of one group
C4_CutExclusive ==
    pc = "done" =>
        \A j \in Parents : \A c \in ChildrenOf(j) : \A t \in Thresholds :
            ~(Selected(c, t) /\ Selected(j, t))

\* a group of two children with a parent; one threshold selects a child,
\* another the parent
C4_Witness ==
    /\ pc = "done"
    /\ \E j \in Parents :
          /\ Cardinality(ChildrenOf(j)) >= 2
          /\ \E c \in ChildrenOf(j) : \E t \in Thresholds : Selected(c, t)
          /\ \E t \in Thresholds : Selected(j, t)

\* one group's pushes and patches, run to the end without interruption
RECURSIVE ReplayGroup(_, _, _)
ReplayGroup(store, w, k) ==
    IF k > Len(w.meshlets) THEN store
    ELSE LET s == PushCluster(store, w.meshlets[k].vertices, w.meshlets[k].indices,
                              w.current_lod_error, InitialParentError)
         IN ReplayGroup([s EXCEPT !.clusters =
                            PatchChildren(s.clusters, w.cluster_indices, w.current_lod_error)],
                        w, k + 1)

\* the level's groups run one after the other, in the order of the groups
RECURSIVE ReplayLevel(_, _, _)
ReplayLevel(store, ws, g) ==
    IF g > Len(ws) THEN store
    ELSE ReplayLevel(ReplayGroup(store, ws[g], 1), ws, g + 1)

\* C5 as claimed: the output does not depend on the schedule of the workers.
\* Every group's result is fixed by its children, so the claim says that
\* when a level's workers are through, the store is what running the groups
\* one after the other (one of the schedules) makes of the level's start.
C5_ScheduleIndependent ==
    (pc = "fanout" /\ AllFinished) => Store = ReplayLevel(level_start, workers, 1)

\* C11: a pushed cluster keeps its place and all of its fields but
\* parent_error, and parent_error changes only from the initial 1e10 to the
\* error of the group that holds the cluster: once at most
C11_ClusterFrame ==
    [][\A i \in DOMAIN clusters :
          /\ i \in DOMAIN clusters'
          /\ clusters'[i].center_radius = clusters[i].center_radius
          /\ clusters'[i].vertex_offset = clusters[i].vertex_offset
          /\ clusters'[i].triangle_offset = clusters[i].triangle_offset
          /\ clusters'[i].counts = clusters[i].counts
          /\ clusters'[i].lod_error = clusters[i].lod_error
          /\ (clusters'[i].parent_error # clusters[i].parent_error =>
                /\ clusters[i].parent_error = InitialParentError
                /\ ~clusters'[i].parent_error.big
                /\ \E g \in DOMAIN workers :
                      /\ (i - 1) \in Range(workers[g].cluster_indices)
                      /\ clusters'[i].parent_error = workers[g].current_lod_error)]_vars

\* a group has pushed two parents, so its children met the patch loop twice,
\* and another group has pushed since
C11_Witness ==
    /\ pc = "fanout"
    /\ \E g, h \in DOMAIN workers :
          /\ g # h
          /\ workers[g].pushed >= 2
          /\ workers[g].pc \in {"finish", "finished"}
          /\ workers[h].pushed >= 1
          /\ \A c \in Range(workers[g].cluster_indices) :
                clusters[c + 1].parent_error = workers[g].current_lod_error

\* the level of a cluster: 0 for a cluster of generate_level0, one above its
\* group's children otherwise
RECURSIVE ClusterLevel(_)
ClusterLevel(i) ==
    IF produced_from[i] = <<>> THEN 0 ELSE 1 + ClusterLevel(produced_from[i][1] + 1)

\* C12: global indices are level-major (a cluster of a lower level has the
\* lower index, level 0 first), the children of a group are all of the
\* level below, the clusters appended during a fan-out are of the level
\* above everything that was there when it began, and the loop of build only
\* goes on when every closure of the level has finished
C12_LevelMajor ==
    /\ \A i, j \in DOMAIN clusters : i < j => ClusterLevel(i) <= ClusterLevel(j)
    /\ \A j \in Parents : \A c \in ChildrenOf(j) :
          c < j /\ ClusterLevel(c) + 1 = ClusterLevel(j)
    /\ pc = "fanout" =>
          /\ \A i \in DOMAIN clusters :
                IF i <= Len(level_start.clusters)
                THEN ClusterLevel(i) <= level
                ELSE ClusterLevel(i) = level + 1
          /\ \A g \in DOMAIN workers : \A c \in Range(workers[g].cluster_indices) :
                ClusterLevel(c + 1) = level
    /\ pc \in {"loop", "done"} => AllFinished

\* the build is done with clusters of three levels
C12_Witness ==
    /\ pc = "done"
    /\ \E i \in DOMAIN clusters : ClusterLevel(i) = 2

\* the number of clusters generate_level0 made
Level0Count == Cardinality({ i \in DOMAIN produced_from : produced_from[i] = <<>> })

\* C13: build terminates; the loop ends as soon as the current set has at
\* most one cluster or the level just built is not smaller than it; every
\* iteration that goes on shrinks the current set; and no more than
\* |level-0 set| - 1 iterations go on
C13_Terminates ==
    /\ <>(pc = "done")
    /\ [][(pc = "loop" /\ Len(current_level_indices) <= 1) => pc' = "done"]_vars
    /\ [][(pc = "fanout" /\ pc' # "fanout"
             /\ Len(next_level_indices) >= Len(current_level_indices)) => pc' = "done"]_vars
    /\ [][(pc = "fanout" /\ pc' = "loop") =>
             Len(current_level_indices') < Len(current_level_indices)]_vars
    /\ [](level <= IF Level0Count = 0 THEN 0 ELSE Level0Count - 1)

\* the build is done after as many levels as the bound allows, and more
\* than one
C13_Witness ==
    /\ pc = "done"
    /\ level >= 2
    /\ level = Level0Count - 1

\* the distinct values of a sequence, in the order of their first use
RECURSIVE FirstUses(_, _)
FirstUses(seq, acc) ==
    IF seq = <<>> THEN acc
    ELSE FirstUses(Tail(seq), IF Head(seq) \in Range(acc) THEN acc ELSE Append(acc, Head(seq)))

C15_PrimitiveBlocksAligned ==
    /\ Len(p_indices) % 4 = 0
    /\ \A i \in DOMAIN clusters : clusters[i].triangle_offset % 4 = 0

\* a cluster whose 3 * triangle_count bytes are not a multiple of 4 is
\* followed by another cluster
C15_Witness ==
    \E i \in DOMAIN clusters :
        /\ (3 * TriangleCount(clusters[i])) % 4 # 0
        /\ i + 1 \in DOMAIN clusters
        /\ clusters[i + 1].triangle_offset
              > clusters[i].triangle_offset + 3 * TriangleCount(clusters[i])

\* C16 as claimed: an index buffer with an index that is out of range makes
\* the build stop with InputMalformed before anything is clustered
C16_MalformedInputReported ==
    ((\E k \in DOMAIN indices : indices[k] >= Len(positions) \div 3)
        /\ pc \notin {"process_mesh", "level0"}) =>
            /\ pc = "input_malformed"
            /\ clusters = <<>>
            /\ v_indices = <<>>
            /\ p_indices = <<>>

\* C17 as claimed: the vertex buffer that reaches generate_level0 has no two
\* vertices of equal position, and every corner of the index buffer still
\* names the position it named in the input
C17_WeldedBeforeLevel0 ==
    pc # "process_mesh" =>
        /\ \A a, b \in DOMAIN vertices : a # b => vertices[a] # vertices[b]
        /\ \A k \in DOMAIN indices :
              indices[k] < Len(vertices) =>
                 vertices[indices[k] + 1] = VerticesOf(positions)[indices[k] + 1]

\* C19 as claimed: within a level no cluster is appended once a child of the
\* level has been patched; every patch of the level follows every append of it
C19_PatchesAfterAllAppends ==
    [][(pc = "fanout" /\ Len(clusters') > Len(clusters)) =>
          \A i \in DOMAIN level_start.clusters :
              clusters[i].parent_error = level_start.clusters[i].parent_error]_vars

\* C20 as claimed: while a worker of the level is still running, the cluster
\* store, the meshlet-vertex-index array and the primitive-index array are
\* not written; appends and patches come after every worker has finished
C20_WorkersDoNotWrite ==
    [][(pc = "fanout" /\ ~AllFinished) => UNCHANGED <<clusters, v_indices, p_indices>>]_vars

\* k is p * 1000 truncated to an integer, p in units of 0.0001
TruncatedMilli(p, k) ==
    \/ p >= 0 /\ 10 * k <= p /\ p < 10 * k + 10
    \/ p < 0 /\ 10 * k - 10 < p /\ p <= 10 * k

\* the weld of group g as its closure computes it from the store
WeldOf(g) == Weld(Store, workers[g].cluster_indices)

\* C27: in the weld of a group, two corners get the same group-local index
\* iff their positions have the same key, the position times 1000 truncated;
\* the indices are 0 .. n - 1 in the order of first encounter, all below the
\* length of the group vertex table; the buffer has 3 entries per child
\* triangle; and group_to_global_map[i] is a global vertex with the key of
\* group vertex i
C27_WeldByQuantizedKey ==
    \A g \in DOMAIN workers :
        (pc = "fanout" /\ workers[g].pc = "start") =>
            LET w == WeldOf(g)
                corners == GroupCorners(Store, workers[g].cluster_indices)
                n == Len(w.group_to_global_map)
                First(k) == CHOOSE i \in DOMAIN w.group_indices :
                               /\ w.group_indices[i] = k
                               /\ \A j \in 1..(i - 1) : w.group_indices[j] # k
            IN /\ \A v \in Range(corners) : \A d \in 1..3 :
                     TruncatedMilli(Position(v)[d], WeldKey(v)[d])
               /\ Len(w.group_indices) = Len(corners)
               /\ \A i, j \in DOMAIN corners :
                     w.group_indices[i] = w.group_indices[j]
                        <=> WeldKey(corners[i]) = WeldKey(corners[j])
               /\ Range(w.group_indices) = 0..(n - 1)
               /\ \A k \in 0..(n - 2) : First(k) < First(k + 1)
               /\ \A i \in DOMAIN w.group_indices : w.group_indices[i] < n
               /\ Len(w.group_indices)
                    = 3 * SumSeq([c \in DOMAIN workers[g].cluster_indices |->
                            TriangleCount(clusters[workers[g].cluster_indices[c] + 1])])
               /\ \A i \in DOMAIN corners :
                     WeldKey(w.group_to_global_map[w.group_indices[i] + 1])
                        = WeldKey(corners[i])

\* a group about to be welded has two corners on different global vertices
\* with one key, and two corners on one global vertex
C27_Witness ==
    \E g \in DOMAIN workers :
        /\ pc = "fanout"
        /\ workers[g].pc = "start"
        /\ LET corners == GroupCorners(Store, workers[g].cluster_indices)
           IN /\ \E i, j \in DOMAIN corners :
                    corners[i] # corners[j] /\ WeldKey(corners[i]) = WeldKey(corners[j])
              /\ \E i, j \in DOMAIN corners : i # j /\ corners[i] = corners[j]

\* the store holds the level's start: both index arrays begin with what they
\* were, and the clusters of the start have their fields but parent_error
StartKept ==
    /\ Len(v_indices) >= Len(level_start.v)
    /\ SubSeq(v_indices, 1, Len(level_start.v)) = level_start.v
    /\ Len(p_indices) >= Len(level_start.p)
    /\ SubSeq(p_indices, 1, Len(level_start.p)) = level_start.p
    /\ Len(clusters) >= Len(level_start.clusters)
    /\ \A i \in DOMAIN level_start.clusters :
          [clusters[i] EXCEPT !.parent_error = InitialParentError]
             = [level_start.clusters[i] EXCEPT !.parent_error = InitialParentError]

\* C30: whatever the other workers of the level have pushed and patched, a
\* worker reads for its children what the store held when the level began:
\* pushes only append to the three arrays, and a parent_error is written by
\* the worker of the one group that holds the cluster
C30_WorkerReadsStable ==
    /\ [](pc = "fanout" =>
            /\ StartKept
            /\ \A g, h \in DOMAIN workers :
                  g # h => Range(workers[g].cluster_indices)
                              \cap Range(workers[h].cluster_indices) = {}
            /\ \A g \in DOMAIN workers :
                  workers[g].pc = "start" =>
                     /\ Weld(Store, workers[g].cluster_indices)
                          = Weld(level_start, workers[g].cluster_indices)
                     /\ GroupCorners(Store, workers[g].cluster_indices)
                          = GroupCorners(level_start, workers[g].cluster_indices)
                     /\ MaxChildError(Store, workers[g].cluster_indices, Milli(0))
                          = MaxChildError(level_start, workers[g].cluster_indices, Milli(0)))
    /\ [][pc = "fanout" =>
            \A i \in DOMAIN clusters :
               clusters'[i].parent_error # clusters[i].parent_error =>
                  \E g \in DOMAIN workers :
                     /\ workers[g].pc = "patch"
                     /\ workers'[g].pc # "patch"
                     /\ (i - 1) \in Range(workers[g].cluster_indices)]_vars

\* a worker has not yet read while another has pushed a parent and patched
\* its own children
C30_Witness ==
    /\ pc = "fanout"
    /\ \E g, h \in DOMAIN workers :
          /\ g # h
          /\ workers[g].pc = "start"
          /\ workers[h].pushed >= 1
          /\ Len(clusters) > Len(level_start.clusters)
          /\ \E c \in Range(workers[h].cluster_indices) :
                clusters[c + 1].parent_error # level_start.clusters[c + 1].parent_error

\* C9: every cluster's offsets are the tails of the two arrays at its push:
\* the slices tile the arrays in global-index order, so they are pairwise
\* disjoint, the offsets never decrease, and every slice ends inside its array
C9_SlicesTile ==
    /\ \A i \in DOMAIN clusters :
          /\ clusters[i].vertex_offset + VertexCount(clusters[i]) <= Len(v_indices)
          /\ clusters[i].triangle_offset + 3 * TriangleCount(clusters[i]) <= Len(p_indices)
    /\ \A i, j \in DOMAIN clusters :
          i < j =>
            /\ clusters[i].vertex_offset + VertexCount(clusters[i]) <= clusters[j].vertex_offset
            /\ clusters[i].triangle_offset + 3 * TriangleCount(clusters[i])
                  <= clusters[j].triangle_offset
    /\ \A i \in DOMAIN clusters :
          /\ clusters[i].vertex_offset
                = (IF i = 1 THEN 0
                   ELSE clusters[i - 1].vertex_offset + VertexCount(clusters[i - 1]))
          /\ clusters[i].triangle_offset
                = (IF i = 1 THEN 0
                   ELSE Len(PadTo4([k \in 1..(clusters[i - 1].triangle_offset
                                              + 3 * TriangleCount(clusters[i - 1])) |-> 0])))

\* two workers of one level have both pushed
C9_Witness ==
    /\ pc = "fanout"
    /\ \E g, h \in DOMAIN workers :
          /\ g # h
          /\ workers[g].pc = "patch"
          /\ workers[h].pushed >= 1
          /\ workers[h].pc # "finished"

\* C10: every value in a cluster's vertex-index slice is a valid index into
\* the vertex array, at every point of the build and so after it
C10_GlobalIndicesValid ==
    \A i \in DOMAIN clusters : \A k \in DOMAIN VertexSlice(i) :
        VertexSlice(i)[k] \in 0..(NumVertices - 1)

\* a coarser cluster whose group welded vertex 4 onto vertex 1: a child
\* lists vertex 4, the parent lists vertex 1 in its place
C10_Witness ==
    /\ pc = "done"
    /\ \E j \in Parents :
          /\ 1 \in Range(VertexSlice(j))
          /\ 3 \in Range(VertexSlice(j))
          /\ 4 \notin Range(VertexSlice(j))
          /\ \E c \in ChildrenOf(j) : 4 \in Range(VertexSlice(c))

-----------------------------------------------------------------------------
(* The LAD file: types.rs, AdaptrixAsset::save_to_file and load_from_file.

   A file is its sequence of bytes.  A u32 or an f32 is the number its four
   bytes spell (an f32 by its bit pattern); the machine is little-endian.
   Every number of the model stays below 2^31. *)

\* the bytes of w as an n-byte little-endian integer (bytemuck::cast_slice)
RECURSIVE LeBytes(_, _)
LeBytes(w, n) == IF n = 0 THEN <<>> ELSE <<w % 256>> \o LeBytes(w \div 256, n - 1)

\* the integer a run of little-endian bytes spell (the read through a cast
\* pointer)
RECURSIVE LeValue(_)
LeValue(bytes) == IF bytes = <<>> THEN 0 ELSE bytes[1] + 256 * LeValue(Tail(bytes))

\* the bytes of a run of u32 words
RECURSIVE WordsBytes(_)
WordsBytes(ws) == IF ws = <<>> THEN <<>> ELSE LeBytes(ws[1], 4) \o WordsBytes(Tail(ws))

\* the repr(C) field order of ClusterPacked, one u32 word per scalar
ClusterPackedWords(c) ==
    c.center_radius \o <<c.vertex_offset, c.triangle_offset, c.counts, c.lod_error,
                         c.parent_error, c.child_count, c.child_base>> \o c.padding

ClusterPackedFromWords(ws) ==
    [center_radius   |-> SubSeq(ws, 1, 4),
     vertex_offset   |-> ws[5],
     triangle_offset |-> ws[6],
     counts          |-> ws[7],
     lod_error       |-> ws[8],
     parent_error    |-> ws[9],
     child_count     |-> ws[10],
     child_base      |-> ws[11],
     padding         |-> SubSeq(ws, 12, 12)]

\* the repr(C) field order of AdaptrixVertex
AdaptrixVertexWords(v) == v.position \o v.normal \o v.uv

AdaptrixVertexFromWords(ws) ==
    [position |-> SubSeq(ws, 1, 3), normal |-> SubSeq(ws, 4, 6), uv |-> SubSeq(ws, 7, 8)]

\* size_of::<LadHeader>(): magic, version, four u64 counts, root_cluster_index
\* and three u32 of padding
SizeOfLadHeader == 4 + 4 + 4 * 8 + 4 + 3 * 4

\* size_of::<ClusterPacked>()
SizeOfClusterPacked == 4 * 4 + 7 * 4 + 1 * 4

\* size_of::<AdaptrixVertex>()
SizeOfAdaptrixVertex == 3 * 4 + 3 * 4 + 2 * 4

\* b"LLAD"
Magic == <<76, 76, 65, 68>>

RECURSIVE ClustersBytes(_)
ClustersBytes(cs) ==
    IF cs = <<>> THEN <<>>
    ELSE WordsBytes(ClusterPackedWords(cs[1])) \o ClustersBytes(Tail(cs))

RECURSIVE VerticesBytes(_)
VerticesBytes(vs) ==
    IF vs = <<>> THEN <<>>
    ELSE WordsBytes(AdaptrixVertexWords(vs[1])) \o VerticesBytes(Tail(vs))

\* mutant: the header is written without its trailing padding
LadHeaderBytesUnpadded(a, root) ==
    Magic \o LeBytes(1, 4)
          \o LeBytes(Len(a.clusters), 8)
          \o LeBytes(Len(a.vertices), 8)
          \o LeBytes(Len(a.meshlet_vertex_indices), 8)
          \o LeBytes(Len(a.meshlet_primitive_indices), 8)
          \o LeBytes(root, 4)

\* the header save_to_file builds, as cast_slice writes it
LadHeaderBytes(a, root) ==
    Magic \o LeBytes(1, 4)
          \o LeBytes(Len(a.clusters), 8)
          \o LeBytes(Len(a.vertices), 8)
          \o LeBytes(Len(a.meshlet_vertex_indices), 8)
          \o LeBytes(Len(a.meshlet_primitive_indices), 8)
          \o LeBytes(root, 4)
          \o LeBytes(0, 4) \o LeBytes(0, 4) \o LeBytes(0, 4)

\* n zero bytes
RECURSIVE ZeroBytes(_)
ZeroBytes(n) == IF n = 0 THEN <<>> ELSE <<0>> \o ZeroBytes(n - 1)

\* the padding save_to_file writes before cluster_children
SavePadding(a) ==
    LET current_pos == SizeOfLadHeader
                           + Len(a.clusters) * SizeOfClusterPacked
                           + Len(a.vertices) * 32
                           + Len(a.meshlet_vertex_indices) * 4
                           + Len(a.meshlet_primitive_indices)
    IN (4 - (current_pos % 4)) % 4

\* the bytes save_to_file writes
save_to_file(a, root) ==
    LadHeaderBytes(a, root)
        \o ClustersBytes(a.clusters)
        \o VerticesBytes(a.vertices)
        \o WordsBytes(a.meshlet_vertex_indices)
        \o a.meshlet_primitive_indices
        \o ZeroBytes(SavePadding(a))
        \o WordsBytes(a.cluster_children)

\* the header load_from_file reads through the cast pointer; the file is at
\* least SizeOfLadHeader long
LadHeader(f) ==
    [magic              |-> SubSeq(f, 1, 4),
     version            |-> LeValue(SubSeq(f, 5, 8)),
     num_clusters       |-> LeValue(SubSeq(f, 9, 16)),
     num_vertices       |-> LeValue(SubSeq(f, 17, 24)),
     num_v_indices      |-> LeValue(SubSeq(f, 25, 32)),
     num_p_indices      |-> LeValue(SubSeq(f, 33, 40)),
     root_cluster_index |-> LeValue(SubSeq(f, 41, 44))]

\* while offset % 4 != 0 { offset += 1; }
AlignUp4(offset) == ((offset + 3) \div 4) * 4

\* mutant: the primitive indices are looked for before the vertex indices
ArrayOffsetsIndicesSwapped(h) ==
    LET clusters_at == SizeOfLadHeader
        vertices_at == clusters_at + h.num_clusters * SizeOfClusterPacked
        p_idx_at    == vertices_at + h.num_vertices * SizeOfAdaptrixVertex
        v_idx_at    == p_idx_at + h.num_p_indices
        children_at == AlignUp4(v_idx_at + h.num_v_indices * 4)
    IN [clusters |-> clusters_at, vertices |-> vertices_at,
        meshlet_vertex_indices |-> v_idx_at, meshlet_primitive_indices |-> p_idx_at,
        cluster_children |-> children_at]

\* the values offset takes in load_from_file, from the header's counts
ArrayOffsets(h) ==
    LET clusters_at == SizeOfLadHeader
        vertices_at == clusters_at + h.num_clusters * SizeOfClusterPacked
        v_idx_at    == vertices_at + h.num_vertices * SizeOfAdaptrixVertex
        p_idx_at    == v_idx_at + h.num_v_indices * 4
        children_at == AlignUp4(p_idx_at + h.num_p_indices)
    IN [clusters |-> clusters_at, vertices |-> vertices_at,
        meshlet_vertex_indices |-> v_idx_at, meshlet_primitive_indices |-> p_idx_at,
        cluster_children |-> children_at]

\* mutant: only the first byte of the magic is compared
MagicOkFirstByte(f) == f[1] = Magic[1]

\* &header.magic == b"LLAD"
MagicOk(f) == SubSeq(f, 1, 4) = Magic

\* what load_from_file returns
LoadError(msg) == [ok |-> FALSE, panic |-> FALSE, error |-> msg]
LoadPanic(msg) == [ok |-> FALSE, panic |-> TRUE, error |-> msg]
NoHandle == LoadError("not loaded")

\* the AdaptrixAsset handle: per array, where it starts in the mapping and
\* how many elements it has.  wrapped: the usize subtraction behind
\* num_children went below zero, and the length is (2^64 - len * 4) / 4 or so
AssetHandle(h, o, num_children, wrapped) ==
    [ok |-> TRUE,
     clusters |-> [offset |-> o.clusters, len |-> h.num_clusters],
     vertices |-> [offset |-> o.vertices, len |-> h.num_vertices],
     meshlet_vertex_indices |-> [offset |-> o.meshlet_vertex_indices, len |-> h.num_v_indices],
     meshlet_primitive_indices |->
         [offset |-> o.meshlet_primitive_indices, len |-> h.num_p_indices],
     cluster_children |-> [offset |-> o.cluster_children, len |-> num_children,
                           wrapped |-> wrapped],
     root_cluster_index |-> h.root_cluster_index]

\* the outcomes of load_from_file on the file f.  mmap.len() - offset is a
\* usize subtraction: when the header's counts point beyond the end of the
\* file, a build with overflow checks panics and one without wraps around
load_from_file(f) ==
    IF Len(f) < SizeOfLadHeader
    THEN {LoadError("File too small to be a LAD file")}
    ELSE IF ~MagicOk(f)
    THEN {LoadError("Invalid LAD magic header. Did you re-process the model?")}
    ELSE LET h == LadHeader(f)
             o == ArrayOffsets(h)
         IN IF o.cluster_children <= Len(f)
            THEN {AssetHandle(h, o, (Len(f) - o.cluster_children) \div 4, FALSE)}
            ELSE {LoadPanic("attempt to subtract with overflow"),
                  AssetHandle(h, o, (o.cluster_children - Len(f)) \div 4, TRUE)}

\* the bytes of a file from byte offset off on, n of them; <<-1>> when they
\* are not all in the file
BytesAt(f, off, n) ==
    IF off + n <= Len(f) THEN SubSeq(f, off + 1, off + n) ELSE <<-1>>

\* a slice of the handle lies in the mapping
InMapping(f, slice, elem_size) == slice.offset + slice.len * elem_size <= Len(f)

\* the u32 words of a slice that lies in the mapping
SliceWords(f, slice, words_per_elem) ==
    [i \in 1..slice.len |->
        [k \in 1..words_per_elem |->
            LeValue(SubSeq(f, slice.offset + ((i - 1) * words_per_elem + k - 1) * 4 + 1,
                              slice.offset + ((i - 1) * words_per_elem + k) * 4))]]

\* the elements the handle's slices show
ReadClusters(f, slice) ==
    [i \in 1..slice.len |->
        ClusterPackedFromWords(SliceWords(f, slice, SizeOfClusterPacked \div 4)[i])]
ReadVertices(f, slice) ==
    [i \in 1..slice.len |->
        AdaptrixVertexFromWords(SliceWords(f, slice, SizeOfAdaptrixVertex \div 4)[i])]
ReadWords(f, slice) == [i \in 1..slice.len |-> SliceWords(f, slice, 1)[i][1]]
ReadBytes(f, slice) == SubSeq(f, slice.offset + 1, slice.offset + slice.len)

(* The flat assets that are saved *)

\* the greatest lengths of the five arrays of a saved asset
MaxFileClusters == 2
MaxFileVertices == 1
MaxFileVertexIndices == 2
MaxFilePrimitiveIndices == 3
MaxFileChildren == 1

\* the high byte of the asset's words: 0, or that of 1e10 (0x501502F9)
Seeds == {0, 80}
RootIndices == {0, 7}

\* word k of element i of array a: no two bytes of a file's body repeat
\* at the same place of two elements
SampleWord(seed, a, i, k) ==
    seed * 16777216 + a * 65536 + (16 * i + k) * 256 + (17 * a + 5 * i + k + 1)

SampleCluster(seed, i) ==
    ClusterPackedFromWords([k \in 1..12 |-> SampleWord(seed, 1, i, k)])
SampleVertex(seed, i) ==
    AdaptrixVertexFromWords([k \in 1..8 |-> SampleWord(seed, 2, i, k)])

FlatAsset(seed, nc, nv, nvi, npi, nch) ==
    [clusters |-> [i \in 1..nc |-> SampleCluster(seed, i)],
     vertices |-> [i \in 1..nv |-> SampleVertex(seed, i)],
     meshlet_vertex_indices |-> [i \in 1..nvi |-> SampleWord(seed, 3, i, 0)],
     meshlet_primitive_indices |-> [i \in 1..npi |-> (seed + 50 * i + 3) % 256],
     cluster_children |-> [i \in 1..nch |-> SampleWord(seed, 5, i, 0)]]

FlatAssets ==
    { FlatAsset(seed, nc, nv, nvi, npi, nch) :
        seed \in Seeds, nc \in 0..MaxFileClusters, nv \in 0..MaxFileVertices,
        nvi \in 0..MaxFileVertexIndices, npi \in 0..MaxFilePrimitiveIndices,
        nch \in 0..MaxFileChildren }

EmptyAsset == FlatAsset(0, 0, 0, 0, 0, 0)

\* no build is running
BuildIdle ==
    /\ pc = "idle"
    /\ positions = <<>>
    /\ vertices = <<>>
    /\ indices = <<>>
    /\ clusters = <<>>
    /\ v_indices = <<>>
    /\ p_indices = <<>>
    /\ current_level_indices = <<>>
    /\ level = 0
    /\ workers = <<>>
    /\ next_level_indices = <<>>
    /\ produced_from = <<>>
    /\ level_start = EmptyStore

\* the mutexes are not followed
LocksIdle ==
    lk = [phase |-> "idle", owner |-> <<>>, driver |-> 0, ip |-> <<>>, meshlets |-> <<>>]

\* no group is simplified on its own
SimplifyIdle ==
    simp = [pc |-> "idle", group_indices |-> <<>>, level |-> 0, target_tris |-> 0,
            error_threshold |-> 0, target_index_count |-> 0, first |-> <<>>,
            sloppy |-> FALSE, indices |-> <<>>, error |-> 0]

\* build_adjacency is not called on its own
AdjacencyIdle ==
    adjcall = [pc |-> "idle", num_clusters |-> 0, cluster_indices |-> <<>>,
               meshlet_vertex_indices |-> <<>>, cluster_vertex_offsets |-> <<>>,
               entries |-> <<>>, adj |-> [offsets |-> <<>>, neighbors |-> <<>>]]

\* partition_clusters is not called on its own
PartitionIdle ==
    part = [pc |-> "idle", num_clusters |-> 0, cluster_indices |-> <<>>, edges |-> {},
            target_group_size |-> 0, groups |-> <<>>]

\* no file is saved or loaded
FileIdle ==
    /\ asset = EmptyAsset
    /\ root_cluster_index = 0
    /\ file = <<>>
    /\ handle = NoHandle
    /\ fpc = "idle"

InitFile ==
    /\ BuildIdle
    /\ PartitionIdle
    /\ SimplifyIdle
    /\ LocksIdle
    /\ AdjacencyIdle
    /\ asset \in FlatAssets
    /\ root_cluster_index \in RootIndices
    /\ file = <<>>
    /\ handle = NoHandle
    /\ fpc = "start"

\* AdaptrixAsset::save_to_file(&asset, root_cluster_index, path)
Save ==
    /\ fpc = "start"
    /\ file' = save_to_file(asset, root_cluster_index)
    /\ fpc' = "saved"
    /\ UNCHANGED <<asset, root_cluster_index, handle>>
    /\ UNCHANGED <<bvars, pvars>>

\* load_from_file is handed whatever file the path names: the saved file cut
\* short
TruncatedLengths(f) ==
    { k \in {0, 3, 4, SizeOfLadHeader - 1, SizeOfLadHeader, Len(f) - 1} : k < Len(f) }

TruncateFile ==
    /\ fpc = "saved"
    /\ \E k \in TruncatedLengths(file) : file' = SubSeq(file, 1, k)
    /\ fpc' = "tampered"
    /\ UNCHANGED <<asset, root_cluster_index, handle>>
    /\ UNCHANGED <<bvars, pvars>>

\* or a file with one byte of the magic changed
CorruptMagic ==
    /\ fpc = "saved"
    /\ \E i \in 1..Len(Magic) : \E b \in {0, 77} :
          file' = SubSeq(file, 1, i - 1) \o <<b>> \o SubSeq(file, i + 1, Len(file))
    /\ fpc' = "tampered"
    /\ UNCHANGED <<asset, root_cluster_index, handle>>
    /\ UNCHANGED <<bvars, pvars>>

\* AdaptrixAsset::load_from_file(path)
Load ==
    /\ fpc \in {"saved", "tampered"}
    /\ handle' \in load_from_file(file)
    /\ fpc' = "loaded"
    /\ UNCHANGED <<asset, root_cluster_index, file>>
    /\ UNCHANGED <<bvars, pvars>>

NextFile ==
    \/ Save
    \/ TruncateFile
    \/ CorruptMagic
    \/ Load

SpecFile == InitFile /\ [][NextFile]_vars

-----------------------------------------------------------------------------
(* Properties of the LAD file *)

\* the file is the one save_to_file wrote for the asset
Intact == file = save_to_file(asset, root_cluster_index)

\* C6: save_to_file then load_from_file gives a handle whose clusters,
\* vertices, meshlet_vertex_indices and meshlet_primitive_indices have the
\* lengths and the elements of the arrays that were saved
C6_RoundTrip ==
    (fpc = "loaded" /\ Intact) =>
        /\ handle.ok
        /\ handle.clusters.len = Len(asset.clusters)
        /\ handle.vertices.len = Len(asset.vertices)
        /\ handle.meshlet_vertex_indices.len = Len(asset.meshlet_vertex_indices)
        /\ handle.meshlet_primitive_indices.len = Len(asset.meshlet_primitive_indices)
        /\ InMapping(file, handle.clusters, SizeOfClusterPacked)
        /\ InMapping(file, handle.vertices, SizeOfAdaptrixVertex)
        /\ InMapping(file, handle.meshlet_vertex_indices, 4)
        /\ InMapping(file, handle.meshlet_primitive_indices, 1)
        /\ ReadClusters(file, handle.clusters) = asset.clusters
        /\ ReadVertices(file, handle.vertices) = asset.vertices
        /\ ReadWords(file, handle.meshlet_vertex_indices) = asset.meshlet_vertex_indices
        /\ ReadBytes(file, handle.meshlet_primitive_indices) = asset.meshlet_primitive_indices

\* a saved file was loaded: two clusters, vertex indices, and primitive
\* indices that do not end on a 4-byte boundary
C6_Witness ==
    /\ fpc = "loaded"
    /\ Intact
    /\ handle.ok
    /\ Len(asset.clusters) >= 2
    /\ Len(asset.meshlet_vertex_indices) >= 1
    /\ Len(asset.meshlet_primitive_indices) % 4 # 0

\* the layout of the saved file, with the cluster array at byte `base`
LayoutWithClustersAt(base) ==
    LET nc  == Len(asset.clusters)
        nv  == Len(asset.vertices)
        nvi == Len(asset.meshlet_vertex_indices)
        npi == Len(asset.meshlet_primitive_indices)
        vertices_at == base + 48 * nc
        v_idx_at    == vertices_at + 32 * nv
        p_idx_at    == v_idx_at + 4 * nvi
    IN /\ BytesAt(file, 0, 4) = <<76, 76, 65, 68>>
       /\ BytesAt(file, 4, 4) = LeBytes(1, 4)
       /\ BytesAt(file, 8, 8) = LeBytes(nc, 8)
       /\ BytesAt(file, 16, 8) = LeBytes(nv, 8)
       /\ BytesAt(file, 24, 8) = LeBytes(nvi, 8)
       /\ BytesAt(file, 32, 8) = LeBytes(npi, 8)
       /\ BytesAt(file, base, 48 * nc) = ClustersBytes(asset.clusters)
       /\ BytesAt(file, vertices_at, 32 * nv) = VerticesBytes(asset.vertices)
       /\ BytesAt(file, v_idx_at, 4 * nvi) = WordsBytes(asset.meshlet_vertex_indices)
       /\ BytesAt(file, p_idx_at, npi) = asset.meshlet_primitive_indices
       /\ (fpc = "loaded" =>
             /\ handle.ok
             /\ handle.clusters.offset = base
             /\ handle.vertices.offset = vertices_at
             /\ handle.meshlet_vertex_indices.offset = v_idx_at
             /\ handle.meshlet_primitive_indices.offset = p_idx_at)

\* C7 as claimed: the cluster array of the saved file starts at byte 40
C7_LayoutClustersAt40 == (fpc # "start" /\ Intact) => LayoutWithClustersAt(40)

\* C7: save_to_file emits magic at byte 0, version 1 at byte 4, the four
\* u64 counts at bytes 8, 16, 24 and 32, root_cluster_index at byte 40 and
\* twelve zero bytes after it, the cluster array from byte 56 on (48 B each),
\* then vertices (32 B each), meshlet_vertex_indices (4 B each) and
\* meshlet_primitive_indices (1 B each) back to back; load_from_file places
\* each array at these offsets
C7_LayoutClustersAt56 ==
    (fpc # "start" /\ Intact) =>
        /\ LayoutWithClustersAt(56)
        /\ BytesAt(file, 40, 4) = LeBytes(root_cluster_index, 4)
        /\ BytesAt(file, 44, 12) = ZeroBytes(12)

\* a saved file with all of its arrays filled was loaded
C7_Witness ==
    /\ fpc = "loaded"
    /\ Intact
    /\ handle.ok
    /\ asset.clusters # <<>>
    /\ asset.vertices # <<>>
    /\ asset.meshlet_vertex_indices # <<>>
    /\ asset.meshlet_primitive_indices # <<>>
    /\ asset.cluster_children # <<>>
    /\ root_cluster_index # 0

\* C8: load_from_file returns an error, and no handle, for every file that
\* is shorter than the header or does not start with 'LLAD'
C8_RejectsBadFile ==
    (fpc = "loaded" /\ (Len(file) < 56 \/ SubSeq(file, 1, 4) # <<76, 76, 65, 68>>)) =>
        /\ ~handle.ok
        /\ ~handle.panic

\* a file of full length whose magic still starts with 'L' was refused
C8_Witness ==
    /\ fpc = "loaded"
    /\ Len(file) >= 56
    /\ file[1] = 76
    /\ SubSeq(file, 1, 4) # <<76, 76, 65, 68>>
    /\ ~handle.ok

\* C29 as claimed: the five slices of every handle load_from_file returns lie
\* inside the mapped file, header + 48 * num_clusters + 32 * num_vertices
\* + 4 * num_v_indices + num_p_indices <= file length, the length of the
\* children never comes from a subtraction below zero, and a file whose header
\* counts ask for more bytes than it has is refused with an error
C29_SlicesInsideMapping ==
    fpc = "loaded" =>
        /\ handle.ok =>
              /\ InMapping(file, handle.clusters, 48)
              /\ InMapping(file, handle.vertices, 32)
              /\ InMapping(file, handle.meshlet_vertex_indices, 4)
              /\ InMapping(file, handle.meshlet_primitive_indices, 1)
              /\ InMapping(file, handle.cluster_children, 4)
              /\ ~handle.cluster_children.wrapped
              /\ SizeOfLadHeader + 48 * handle.clusters.len + 32 * handle.vertices.len
                    + 4 * handle.meshlet_vertex_indices.len
                    + handle.meshlet_primitive_indices.len <= Len(file)
        /\ (/\ Len(file) >= SizeOfLadHeader
            /\ MagicOk(file)
            /\ SizeOfLadHeader + 48 * LadHeader(file).num_clusters
                  + 32 * LadHeader(file).num_vertices + 4 * LadHeader(file).num_v_indices
                  + LadHeader(file).num_p_indices > Len(file))
              => (~handle.ok /\ ~handle.panic)

-----------------------------------------------------------------------------
(* partition_clusters on its own: any cluster ids, any symmetric adjacency,
   any target size *)

\* the most clusters, and the greatest target size, of a call
MaxPartitionClusters == 4
MaxTargetGroupSize == 3

\* the pairs (a, b), a < b, of the clusters 0 .. n - 1
ClusterPairs(n) == { <<a, b>> : a \in 0..(n - 1), b \in 0..(n - 1) } \cap
                   { pr \in (0..(n - 1)) \X (0..(n - 1)) : pr[1] < pr[2] }

InitPartition ==
    /\ BuildIdle
    /\ FileIdle
    /\ AdjacencyIdle
    /\ SimplifyIdle
    /\ LocksIdle
    /\ \E n \in 1..MaxPartitionClusters :
       \E current \in (SUBSET (0..(n - 1))) \ {{}} :
       \E edges \in SUBSET ClusterPairs(n) :
       \E target_group_size \in 1..MaxTargetGroupSize :
          part = [pc |-> "call", num_clusters |-> n, cluster_indices |-> Ascending(current),
                  edges |-> edges, target_group_size |-> target_group_size,
                  groups |-> <<>>]

\* groups = partition_clusters(cluster_indices, adj, target_group_size), adj
\* the CSR form of the edges, each kept in both directions
Partition ==
    /\ part.pc = "call"
    /\ part' = [part EXCEPT
          !.pc = "returned",
          !.groups = partition_clusters(part.cluster_indices,
                                        Csr(part.num_clusters, SortPairs(part.edges)),
                                        part.target_group_size)]
    /\ UNCHANGED <<bvars, fvars, adjcall, simp, lk>>

NextPartition == Partition

SpecPartition == InitPartition /\ [][NextPartition]_vars

\* C18 as claimed: every cluster handed to partition_clusters is in exactly
\* one of the groups it returns
C18_GroupsPartitionInput ==
    part.pc = "returned" =>
        \A c \in Range(part.cluster_indices) :
            Cardinality({ <<g, k>> \in (DOMAIN part.groups) \X (1..Len(part.cluster_indices)) :
                            k \in DOMAIN part.groups[g] /\ part.groups[g][k] = c }) = 1

-----------------------------------------------------------------------------
(* build_adjacency on its own: any clusters of the store as the level, any
   vertex ids in the clusters, any order of the entries of one vertex id *)

\* the most clusters of the store of a call
MaxAdjClusters == 3

\* the vertex ids the clusters of a call draw from
AdjVertexIds == {0, 1}

\* the orders the elements of S can stand in
RECURSIVE Orders(_)
Orders(S) ==
    IF S = {} THEN {<<>>}
    ELSE UNION { { <<x>> \o o : o \in Orders(S \ {x}) } : x \in S }

\* step 2 as sort_unstable_by_key specifies it: ascending vertex ids, the
\* entries of one vertex id in no particular order
RECURSIVE SortUnstableByVertex(_, _)
SortUnstableByVertex(entries, keys) ==
    IF keys = {} THEN {<<>>}
    ELSE LET k == CHOOSE x \in keys : \A y \in keys : x <= y
             run == { entries[i] : i \in { j \in DOMAIN entries : entries[j][1] = k } }
         IN { a \o b : a \in Orders(run),
                       b \in SortUnstableByVertex(entries, keys \ {k}) }

\* the vertex ids of a meshlet: distinct, at least one
MeshletVertexLists == { Ascending(S) : S \in (SUBSET AdjVertexIds) \ {{}} }

\* meshlet_vertex_indices and (offset, count) of the clusters with these lists
ConcatLists(lists) == Flatten(lists)

OffsetsOfLists(lists) ==
    [i \in DOMAIN lists |-> <<SumSeq([j \in 1..(i - 1) |-> Len(lists[j])]), Len(lists[i])>>]

InitAdjacency ==
    /\ BuildIdle
    /\ FileIdle
    /\ PartitionIdle
    /\ SimplifyIdle
    /\ LocksIdle
    /\ \E n \in 1..MaxAdjClusters :
       \E lists \in [1..n -> MeshletVertexLists] :
       \E current \in (SUBSET (0..(n - 1))) \ {{}} :
          adjcall = [pc |-> "call", num_clusters |-> n,
                     cluster_indices |-> Ascending(current),
                     meshlet_vertex_indices |-> ConcatLists(lists),
                     cluster_vertex_offsets |-> OffsetsOfLists(lists),
                     entries |-> <<>>,
                     adj |-> [offsets |-> <<>>, neighbors |-> <<>>]]

\* steps 1 and 2: the entries, sorted by vertex id
SortEntries ==
    /\ adjcall.pc = "call"
    /\ LET entries == AdjEntries(adjcall.cluster_indices, adjcall.meshlet_vertex_indices,
                                 adjcall.cluster_vertex_offsets)
       IN \E sorted \in SortUnstableByVertex(entries,
                                             { entries[i][1] : i \in DOMAIN entries }) :
             adjcall' = [adjcall EXCEPT !.pc = "sorted", !.entries = sorted]
    /\ UNCHANGED <<bvars, fvars, part, simp, lk>>

\* steps 3 to 5: the edges of the runs, sorted, deduplicated, in CSR form
EmitAdjacency ==
    /\ adjcall.pc = "sorted"
    /\ adjcall' = [adjcall EXCEPT
          !.pc = "returned",
          !.adj = Csr(adjcall.num_clusters, SortPairs(RawAdj(adjcall.entries)))]
    /\ UNCHANGED <<bvars, fvars, part, simp, lk>>

NextAdjacency == SortEntries \/ EmitAdjacency

SpecAdjacency == InitAdjacency /\ [][NextAdjacency]_vars

\* the vertex ids of cluster c of the call
AdjVerticesOf(c) ==
    LET oc == adjcall.cluster_vertex_offsets[c + 1]
    IN { adjcall.meshlet_vertex_indices[oc[1] + i] : i \in 1..oc[2] }

\* the directed edges a -> b that get_neighbors yields
CsrEdges(adj, num_clusters) ==
    { e \in (0..(num_clusters - 1)) \X (0..(num_clusters - 1)) :
        e[2] \in Range(get_neighbors(adj, e[1])) }

\* the all-pairs graph: two clusters of the level with a common vertex id
AllPairsEdges ==
    { e \in Range(adjcall.cluster_indices) \X Range(adjcall.cluster_indices) :
        e[1] # e[2] /\ AdjVerticesOf(e[1]) \cap AdjVerticesOf(e[2]) # {} }

\* the clusters reached from those of seen along the edges E
RECURSIVE ReachedAlong(_, _)
ReachedAlong(seen, E) ==
    LET more == seen \cup { e[2] : e \in { x \in E : x[1] \in seen } }
    IN IF more = seen THEN seen ELSE ReachedAlong(more, E)

\* C21: whatever order the sort leaves the entries of a vertex id in, every
\* cluster of the level has the same connected component in the graph
\* build_adjacency returns as in the all-pairs shared-vertex graph
C21_SameComponents ==
    adjcall.pc = "returned" =>
        \A a \in Range(adjcall.cluster_indices) :
            ReachedAlong({a}, CsrEdges(adjcall.adj, adjcall.num_clusters))
                = ReachedAlong({a}, AllPairsEdges)

\* a call has returned a graph that lacks an edge of the all-pairs graph
C21_Witness ==
    /\ adjcall.pc = "returned"
    /\ AllPairsEdges \ CsrEdges(adjcall.adj, adjcall.num_clusters) # {}

\* the deduplicated edges of the call
AdjEdgeSet == RawAdj(adjcall.entries)

\* C22: the graph build_adjacency returns is symmetric, b is a neighbour of a
\* iff a is one of b, and its CSR is well formed: offsets start at 0 and never
\* decrease, cluster i has as many slots as deduplicated edges touch it, and
\* the last offset is the length of neighbors, twice the number of edges
C22_SymmetricCsr ==
    adjcall.pc = "returned" =>
        LET adj == adjcall.adj
            n   == adjcall.num_clusters
        IN /\ \A a, b \in 0..(n - 1) :
                 b \in Range(get_neighbors(adj, a)) <=> a \in Range(get_neighbors(adj, b))
           /\ Len(adj.offsets) = n + 1
           /\ adj.offsets[1] = 0
           /\ \A i \in 0..(n - 1) :
                 /\ adj.offsets[i + 1] <= adj.offsets[i + 2]
                 /\ adj.offsets[i + 2] - adj.offsets[i + 1]
                      = Cardinality({ e \in AdjEdgeSet : e[1] = i \/ e[2] = i })
                 /\ Range(get_neighbors(adj, i))
                      = { e[2] : e \in { x \in AdjEdgeSet : x[1] = i } }
                        \cup { e[1] : e \in { x \in AdjEdgeSet : x[2] = i } }
           /\ adj.offsets[n + 1] = Len(adj.neighbors)
           /\ Len(adj.neighbors) = 2 * Cardinality(AdjEdgeSet)

\* a call has returned a graph with a cluster of two neighbours
C22_Witness ==
    /\ adjcall.pc = "returned"
    /\ \E i \in 0..(adjcall.num_clusters - 1) :
          Len(get_neighbors(adjcall.adj, i)) = 2

\* C23: every group partition_clusters returns has at least one cluster and
\* at most target_group_size clusters
C23_GroupSizeBounded ==
    part.pc = "returned" =>
        \A g \in DOMAIN part.groups :
            /\ Len(part.groups[g]) >= 1
            /\ Len(part.groups[g]) <= part.target_group_size

\* a call has returned a group of target_group_size >= 2 clusters beside
\* another group
C23_Witness ==
    /\ part.pc = "returned"
    /\ part.target_group_size >= 2
    /\ Len(part.groups) >= 2
    /\ \E g \in DOMAIN part.groups : Len(part.groups[g]) = part.target_group_size

\* the adjacency handed to partition_clusters
PartAdj == Csr(part.num_clusters, SortPairs(part.edges))

\* the edges of the adjacency with both ends in the set M
EdgesWithin(M) == { e \in CsrEdges(PartAdj, part.num_clusters) : e[1] \in M /\ e[2] \in M }

\* C24: the members of a returned group are clusters of the level, any two of
\* them joined by a path of adjacency edges through members of the group, and
\* a cluster of the level without a neighbour in the level is a group alone
C24_GroupsConnected ==
    part.pc = "returned" =>
        /\ \A g \in DOMAIN part.groups :
              LET M == Range(part.groups[g])
              IN /\ M \subseteq Range(part.cluster_indices)
                 /\ \A a \in M : M \subseteq ReachedAlong({a}, EdgesWithin(M))
        /\ \A c \in Range(part.cluster_indices) :
              Range(get_neighbors(PartAdj, c)) \cap Range(part.cluster_indices) = {}
                 => \E g \in DOMAIN part.groups : part.groups[g] = <<c>>

\* a call has returned a group of several clusters, one of them with a
\* neighbour outside the level, and a group of a cluster without neighbours
C24_Witness ==
    /\ part.pc = "returned"
    /\ \E g \in DOMAIN part.groups :
          /\ Len(part.groups[g]) >= 2
          /\ \E a \in Range(part.groups[g]) :
                Range(get_neighbors(PartAdj, a)) \ Range(part.cluster_indices) # {}
    /\ \E c \in Range(part.cluster_indices) :
          /\ get_neighbors(PartAdj, c) = <<>>
          /\ \E g \in DOMAIN part.groups : part.groups[g] = <<c>>

-----------------------------------------------------------------------------
(* The simplification of one group on its own: the target of
   build_next_level, then simplify_group with its two calls of meshopt *)

\* the most triangles of a group, and the deepest level
MaxGroupTris == 5
MaxSimplifyLevel == 3

\* the welded index buffer of a group of t triangles that share no vertex
GroupIndices(t) == [i \in 1..(3 * t) |-> i - 1]

InitSimplify ==
    /\ BuildIdle
    /\ FileIdle
    /\ PartitionIdle
    /\ AdjacencyIdle
    /\ LocksIdle
    /\ \E t \in 1..MaxGroupTris :
       \E lvl \in 0..MaxSimplifyLevel :
          simp = [pc |-> "group", group_indices |-> GroupIndices(t), level |-> lvl,
                  target_tris |-> 0, error_threshold |-> 0, target_index_count |-> 0,
                  first |-> <<>>, sloppy |-> FALSE, indices |-> <<>>, error |-> 0]

\* error_threshold, reduction_ratio and target_tris of the closure
ComputeTarget ==
    /\ simp.pc = "group"
    /\ simp' = [simp EXCEPT
          !.pc = "call",
          !.error_threshold = ErrorThreshold(simp.level),
          !.target_tris = TargetTris(Len(simp.group_indices), simp.level)]
    /\ UNCHANGED <<bvars, fvars, part, adjcall, lk>>

\* simplify(indices, &adapter, target_count, error_threshold): meshopt takes
\* its third argument as the target index count
Simplify ==
    /\ simp.pc = "call"
    /\ \E first \in SimplifierResults(simp.group_indices) :
          simp' = [simp EXCEPT
             !.pc = "simplified",
             !.target_index_count = simp.target_tris,
             !.first = first]
    /\ UNCHANGED <<bvars, fvars, part, adjcall, lk>>

\* the test holds: simplify_sloppy(&indices, &adapter, target_count)
SloppyFallback ==
    /\ simp.pc = "simplified"
    /\ Len(simp.first) > SloppyThreshold(Len(simp.group_indices))
    /\ \E second \in SimplifierResults(simp.group_indices) :
          simp' = [simp EXCEPT
             !.pc = "returned",
             !.sloppy = TRUE,
             !.indices = second,
             !.error = SimplifyError(Len(simp.group_indices), Len(second),
                                     simp.error_threshold)]
    /\ UNCHANGED <<bvars, fvars, part, adjcall, lk>>

\* the test fails: the result of simplify is returned
KeepFirst ==
    /\ simp.pc = "simplified"
    /\ ~(Len(simp.first) > SloppyThreshold(Len(simp.group_indices)))
    /\ simp' = [simp EXCEPT
          !.pc = "returned",
          !.indices = simp.first,
          !.error = SimplifyError(Len(simp.group_indices), Len(simp.first),
                                  simp.error_threshold)]
    /\ UNCHANGED <<bvars, fvars, part, adjcall, lk>>

NextSimplify == ComputeTarget \/ Simplify \/ SloppyFallback \/ KeepFirst

SpecSimplify == InitSimplify /\ [][NextSimplify]_vars

\* C25 as claimed: the sloppy simplifier runs iff simplify returned at least
\* 80% of the input indices, the case of exactly 80% included
C25_FallbackAtLeast80 ==
    simp.pc = "returned" =>
        (simp.sloppy <=> 5 * Len(simp.first) >= 4 * Len(simp.group_indices))

\* C25 as the code has it: the sloppy simplifier runs iff simplify returned
\* more than 80% of the input indices; at exactly 80% and below the result of
\* simplify is returned
C25_FallbackAbove80 ==
    simp.pc = "returned" =>
        /\ simp.sloppy <=> 5 * Len(simp.first) > 4 * Len(simp.group_indices)
        /\ ~simp.sloppy => simp.indices = simp.first

\* simplify returned exactly 80% of the input and its result was kept
C25_Witness ==
    /\ simp.pc = "returned"
    /\ Len(simp.first) > 0
    /\ 5 * Len(simp.first) = 4 * Len(simp.group_indices)
    /\ ~simp.sloppy
    /\ simp.indices = simp.first

\* C26 as claimed: target_tris is max(1, floor(T * R)), R = 1/2 below level 3
\* and 1/4 from level 3 on, and the simplifier is handed 3 * target_tris as
\* its target index count
C26_TargetInIndices ==
    simp.pc \in {"simplified", "returned"} =>
        LET T == Len(simp.group_indices) \div 3
            scaled == IF simp.level < 3 THEN T \div 2 ELSE T \div 4
        IN /\ simp.target_tris = (IF scaled >= 1 THEN scaled ELSE 1)
           /\ simp.target_index_count = 3 * simp.target_tris

-----------------------------------------------------------------------------
(* The mutexes of one level: the prologue of build_next_level on the calling
   thread (thread 0), then one thread per group (threads 1 .. n) *)

\* the most groups of the level, and the most new meshlets of a group
MaxLockWorkers == 2
MaxLockMeshlets == 1

Lock(m) == [op |-> "lock", mutex |-> m]
Unlock(m) == [op |-> "unlock", mutex |-> m]

RECURSIVE Repeat(_, _)
Repeat(seq, n) == IF n = 0 THEN <<>> ELSE seq \o Repeat(seq, n - 1)

\* lines 64-77: both index arrays, clusters once per current cluster, the drops
PrologueProgram(k) ==
    <<Lock("meshlet_vertex_indices"), Lock("meshlet_primitive_indices")>>
    \o Repeat(<<Lock("clusters"), Unlock("clusters")>>, k)
    \o <<Unlock("meshlet_vertex_indices"), Unlock("meshlet_primitive_indices")>>

\* lines 95-97 and the drops of lines 127, 128 and 135
ReadLocks ==
    <<Lock("meshlet_vertex_indices"), Lock("meshlet_primitive_indices"), Lock("clusters"),
      Unlock("meshlet_vertex_indices"), Unlock("meshlet_primitive_indices"),
      Unlock("clusters")>>

\* mutant: push_cluster_thread_safe locks clusters first
PushLockOrderClustersFirst ==
    <<"clusters", "meshlet_vertex_indices", "meshlet_primitive_indices">>

\* the order push_cluster_thread_safe locks in
PushLockOrder ==
    <<"meshlet_vertex_indices", "meshlet_primitive_indices", "clusters">>

\* push_cluster_thread_safe: the three guards, dropped at the return in the
\* reverse of their declaration
PushLocks ==
    <<Lock(PushLockOrder[1]), Lock(PushLockOrder[2]), Lock(PushLockOrder[3]),
      Unlock(PushLockOrder[3]), Unlock(PushLockOrder[2]), Unlock(PushLockOrder[1])>>

\* the patch of the children after a push
PatchLocks == <<Lock("clusters"), Unlock("clusters")>>

\* next_level_indices_mutex.lock().unwrap().extend(..)
ExtendLocks == <<Lock("next_level_indices"), Unlock("next_level_indices")>>

\* the closure of a group that yields m new meshlets
WorkerProgram(m) == ReadLocks \o Repeat(PushLocks \o PatchLocks, m) \o ExtendLocks

Mutexes == {"meshlet_vertex_indices", "meshlet_primitive_indices", "clusters",
            "next_level_indices"}

InitLocks ==
    /\ BuildIdle
    /\ FileIdle
    /\ PartitionIdle
    /\ AdjacencyIdle
    /\ SimplifyIdle
    /\ \E n \in 1..MaxLockWorkers :
       \E meshlets \in [1..n -> 0..MaxLockMeshlets] :
          lk = [phase |-> "prologue",
                owner |-> [meshlet_vertex_indices |-> <<>>, meshlet_primitive_indices |-> <<>>,
                           clusters |-> <<>>, next_level_indices |-> <<>>],
                driver |-> 0, ip |-> Zeros(n), meshlets |-> meshlets]

\* the guards the calling thread has taken or dropped so far: lk.driver;
\* those of thread w: lk.ip[w]
DriverProgram == PrologueProgram(Len(lk.ip))

ProgramOf(w) == WorkerProgram(lk.meshlets[w])

DriverLock ==
    /\ lk.phase = "prologue"
    /\ lk.driver < Len(DriverProgram)
    /\ LET instr == DriverProgram[lk.driver + 1]
       IN /\ instr.op = "lock"
          /\ lk.owner[instr.mutex] = <<>>
          /\ lk' = [lk EXCEPT !.owner = [@ EXCEPT ![instr.mutex] = <<0>>],
                              !.driver = @ + 1]
    /\ UNCHANGED <<bvars, fvars, part, adjcall, simp>>

DriverUnlock ==
    /\ lk.phase = "prologue"
    /\ lk.driver < Len(DriverProgram)
    /\ LET instr == DriverProgram[lk.driver + 1]
       IN /\ instr.op = "unlock"
          /\ lk' = [lk EXCEPT !.owner = [@ EXCEPT ![instr.mutex] = <<>>],
                              !.driver = @ + 1]
    /\ UNCHANGED <<bvars, fvars, part, adjcall, simp>>

\* groups.into_par_iter().for_each(..)
FanOut ==
    /\ lk.phase = "prologue"
    /\ lk.driver = Len(DriverProgram)
    /\ lk' = [lk EXCEPT !.phase = "fanout"]
    /\ UNCHANGED <<bvars, fvars, part, adjcall, simp>>

WorkerLock(w) ==
    /\ lk.phase = "fanout"
    /\ lk.ip[w] < Len(ProgramOf(w))
    /\ LET instr == ProgramOf(w)[lk.ip[w] + 1]
       IN /\ instr.op = "lock"
          /\ lk.owner[instr.mutex] = <<>>
          /\ lk' = [lk EXCEPT !.owner = [@ EXCEPT ![instr.mutex] = <<w>>],
                              !.ip = [@ EXCEPT ![w] = @ + 1]]
    /\ UNCHANGED <<bvars, fvars, part, adjcall, simp>>

WorkerUnlock(w) ==
    /\ lk.phase = "fanout"
    /\ lk.ip[w] < Len(ProgramOf(w))
    /\ LET instr == ProgramOf(w)[lk.ip[w] + 1]
       IN /\ instr.op = "unlock"
          /\ lk' = [lk EXCEPT !.owner = [@ EXCEPT ![instr.mutex] = <<>>],
                              !.ip = [@ EXCEPT ![w] = @ + 1]]
    /\ UNCHANGED <<bvars, fvars, part, adjcall, simp>>

\* for_each returns and build_next_level with it
LocksJoin ==
    /\ lk.phase = "fanout"
    /\ \A w \in DOMAIN lk.ip : lk.ip[w] = Len(ProgramOf(w))
    /\ lk' = [lk EXCEPT !.phase = "returned"]
    /\ UNCHANGED <<bvars, fvars, part, adjcall, simp>>

NextLocks ==
    \/ DriverLock
    \/ DriverUnlock
    \/ FanOut
    \/ \E w \in DOMAIN lk.ip : WorkerLock(w)
    \/ \E w \in DOMAIN lk.ip : WorkerUnlock(w)
    \/ LocksJoin

SpecLocks == InitLocks /\ [][NextLocks]_vars

\* a thread that can run does run
FairSpecLocks == SpecLocks /\ WF_vars(NextLocks)

\* the mutexes thread t holds
HeldBy(t) == { m \in Mutexes : lk.owner[m] = <<t>> }

\* the mutex thread t is about to lock, if any
NextLockOf(t) ==
    LET prog == IF t = 0 THEN DriverProgram ELSE ProgramOf(t)
        done == IF t = 0 THEN lk.driver ELSE lk.ip[t]
        runs == IF t = 0 THEN lk.phase = "prologue" ELSE lk.phase = "fanout"
    IN IF runs /\ done < Len(prog) /\ prog[done + 1].op = "lock"
       THEN {prog[done + 1].mutex} ELSE {}

\* the order the claim names: vertex indices, primitive indices, clusters
StoreLockOrder == <<"meshlet_vertex_indices", "meshlet_primitive_indices", "clusters">>

\* every thread about to lock a store mutex holds only store mutexes that
\* stand before it in the order, and locks next_level_indices holding none
LockOrderRespected ==
    \A t \in 0..Len(lk.ip) : \A m \in NextLockOf(t) :
        IF m \in Range(StoreLockOrder)
        THEN \A h \in HeldBy(t) :
                /\ h \in Range(StoreLockOrder)
                /\ IndexOf(StoreLockOrder, h) < IndexOf(StoreLockOrder, m)
        ELSE HeldBy(t) = {}

\* until build_next_level has returned, some thread is not waiting
SomeThreadRuns ==
    lk.phase \in {"prologue", "fanout"} =>
        \/ lk.phase = "prologue" /\ lk.driver = Len(DriverProgram)
        \/ lk.phase = "fanout" /\ \A w \in DOMAIN lk.ip : lk.ip[w] = Len(ProgramOf(w))
        \/ \E t \in 0..Len(lk.ip) :
              LET prog == IF t = 0 THEN DriverProgram ELSE ProgramOf(t)
                  done == IF t = 0 THEN lk.driver ELSE lk.ip[t]
                  runs == IF t = 0 THEN lk.phase = "prologue" ELSE lk.phase = "fanout"
              IN /\ runs
                 /\ done < Len(prog)
                 /\ prog[done + 1].op = "lock" => lk.owner[prog[done + 1].mutex] = <<>>

\* C28: the threads lock the three store mutexes in the order vertex indices,
\* primitive indices, clusters, or clusters alone, never waiting for an
\* earlier one while holding a later one; no state is a deadlock; and every
\* worker finishes, so that build_next_level returns
C28_NoLockDeadlock ==
    /\ [](lk.phase # "idle" => LockOrderRespected /\ SomeThreadRuns)
    /\ <>(lk.phase = "returned")

\* one worker holds the three store mutexes inside push_cluster_thread_safe
\* while another waits for the first of them
C28_Witness ==
    /\ lk.phase = "fanout"
    /\ \E a, b \in DOMAIN lk.ip :
          /\ a # b
          /\ HeldBy(a) = Range(StoreLockOrder)
          /\ lk.ip[a] > Len(ReadLocks)
          /\ NextLockOf(b) = {"meshlet_vertex_indices"}

-----------------------------------------------------------------------------
(* The build: NaniteBuilder::new(vertices, indices) followed by build() *)

Init ==
    /\ pc = "level0"
    /\ positions = <<>>
    /\ vertices = Vertices
    /\ indices \in InputMeshes
    /\ clusters = <<>>
    /\ v_indices = <<>>
    /\ p_indices = <<>>
    /\ current_level_indices = <<>>
    /\ level = 0
    /\ workers = <<>>
    /\ next_level_indices = <<>>
    /\ produced_from = <<>>
    /\ level_start = EmptyStore
    /\ FileIdle
    /\ PartitionIdle
    /\ SimplifyIdle
    /\ LocksIdle
    /\ AdjacencyIdle

Next ==
    \/ GenerateLevel0
    \/ BuildNextLevelStart
    \/ LoopExit
    \/ \E g \in DOMAIN workers : WorkerRun(g)
    \/ \E g \in DOMAIN workers : WorkerPush(g)
    \/ \E g \in DOMAIN workers : WorkerPatch(g)
    \/ \E g \in DOMAIN workers : WorkerFinish(g)
    \/ LevelJoin

Spec == Init /\ [][Next]_vars

(* process_mesh: the vertices are made of the caller's positions, then built *)

\* two triangles along an edge, each with vertices of its own: vertex 3 is
\* where vertex 1 is, vertex 4 where vertex 2 is
UnweldedPositions ==
    Flatten(<< <<0, 0, 0>>, <<20, 0, 0>>, <<0, 20, 0>>,
               <<20, 0, 0>>, <<0, 20, 0>>, <<20, 20, 0>> >>)

\* the arguments of process_mesh: the meshes of the build, a mesh with
\* doubled vertices, and index buffers that name a vertex that is not there
MeshInputs ==
    { [positions |-> Flatten(Vertices), indices |-> m] : m \in InputMeshes }
        \cup { [positions |-> UnweldedPositions, indices |-> <<0, 1, 2, 3, 5, 4>>],
               [positions |-> SubSeq(UnweldedPositions, 1, 9), indices |-> <<0, 1, 3>>],
               [positions |-> SubSeq(UnweldedPositions, 1, 9),
                indices |-> <<0, 1, 2, 2, 1, 3>>] }

InitMesh ==
    /\ pc = "process_mesh"
    /\ \E input \in MeshInputs :
          /\ positions = input.positions
          /\ indices = input.indices
    /\ vertices = <<>>
    /\ clusters = <<>>
    /\ v_indices = <<>>
    /\ p_indices = <<>>
    /\ current_level_indices = <<>>
    /\ level = 0
    /\ workers = <<>>
    /\ next_level_indices = <<>>
    /\ produced_from = <<>>
    /\ level_start = EmptyStore
    /\ FileIdle
    /\ PartitionIdle
    /\ SimplifyIdle
    /\ LocksIdle
    /\ AdjacencyIdle

NextMesh ==
    \/ ProcessMesh
    \/ GenerateLevel0
    \/ GenerateLevel0OutOfRange
    \/ BuildNextLevelStart
    \/ LoopExit
    \/ \E g \in DOMAIN workers : WorkerRun(g)
    \/ \E g \in DOMAIN workers : WorkerPush(g)
    \/ \E g \in DOMAIN workers : WorkerPatch(g)
    \/ \E g \in DOMAIN workers : WorkerFinish(g)
    \/ LevelJoin

SpecMesh == InitMesh /\ [][NextMesh]_vars

\* a thread that can run does run in the end: the main thread of build, and
\* the closures, which rayon runs to completion before for_each returns.
\* The last conjunct is WF_vars(Next) written out: a step of Next is a step
\* that changes vars, and Next can take one in every state but those where
\* build has returned
FairSpec ==
    /\ Init /\ [][Next]_vars
    /\ WF_vars(LoopExit)
    /\ WF_vars(LevelJoin)
    /\ ([]<>(pc = "done") \/ []<><<TRUE>>_vars)

====
